---- MODULE Spec2Model ----
(***************************************************************************)
(* Off-chain order matching engine of the stock token exchange             *)
(* (cartesi-machine/offchain_logic.py): the configuration object, the      *)
(* request handler handle_order_request, the per-token matching loop       *)
(* match_orders_for_token and the list entry point match_orders.           *)
(*                                                                         *)
(* Spec        : an engine instance serving handle_order_request calls,   *)
(*               one action per call.                                      *)
(* MatchSpec   : match_orders called on order lists, one action per pass   *)
(*               through the while loop of match_orders_for_token.         *)
(* ApiSpec     : both entry points on one engine instance.                 *)
(* AdapterSpec : the rollup loop cartesi_rollups_main driving the engine.  *)
(* RunnerSpec  : POST /execute and POST /execute-raw of                    *)
(*               python_runner_server.py, each request on a thread of its  *)
(*               own, the threads sharing the engine's config.             *)
(* BreakerSpec : calls through a CircuitBreaker of                         *)
(*               backend/utils/circuit_breaker.py made from threads that   *)
(*               share the instance.                                       *)
(***************************************************************************)
EXTENDS Integers, Sequences, FiniteSets, TLC

VARIABLES
    config,                     \* the module-level ExchangeConfig instance
    pc,                         \* "idle", the function being run, or "returned"
    payload,                    \* argument of handle_order_request
    orders,                     \* argument of match_orders
    orders_by_token,            \* orders_by_token / token_groups of the caller
    token_i,                    \* index of the group the for loop is at
    m,                          \* the frame of match_orders_for_token
    all_matched_trades_tuples,  \* trades collected so far by the caller
    total_processed,            \* the caller's trade counter
    result,                     \* what the call returned
    request_type,               \* cartesi_rollups_main: type of the request at hand
    finish_response,            \* cartesi_rollups_main: status for the next /finish
    posted,                     \* outputs sent to the rollup server for this request
    calls,                      \* handle_order_request calls made for this request
    raised,                     \* handling this request raised (not in transport)
    finish_http,                \* what the last POST /finish came to
    views,                      \* python_runner_server: the request each thread serves
    breaker,                    \* a CircuitBreaker instance
    now,                        \* time.time()
    last_call,                  \* what the last call through the breaker came to
    wrappers,                   \* where each thread is in CircuitBreaker's wrapper
    codec                       \* the eth_abi the build has: "strict" or "lenient"

vars == <<config, pc, payload, orders, orders_by_token, token_i, m,
          all_matched_trades_tuples, total_processed, result,
          request_type, finish_response, posted, calls, raised, finish_http,
          views, breaker, now, last_call, wrappers, codec>>

\* The state of the rollup loop, which the engine's functions do not touch.
adapter_vars == <<request_type, finish_response, posted, calls, raised,
                  finish_http>>

\* The state of the runner service and of the backend's circuit breaker,
\* which neither the engine nor the rollup loop touches.
breaker_vars == <<breaker, now, last_call, wrappers>>
service_vars == <<views, breaker, now, last_call, wrappers>>

\* What the build fixed: no function writes it.
build_vars == <<codec>>

(***************************************************************************)
(* Bounds of the model and the input universe.                             *)
(***************************************************************************)
MaxBuys == 2        \* orders in the buy array of a payload
MaxSells == 2       \* orders in the sell array of a payload
MaxOrders == 3      \* orders in a list of any make given to match_orders
MaxAmount == 3      \* largest order amount
MaxTime == 4        \* last reading of the clock of the circuit breaker
MaxFailures == 3    \* largest failure count of the circuit breaker

Prices == {100, 250}
Amounts == 1..MaxAmount

\* Build-time configurations (environment variables read by __init__):
\* <<MAX_TRADES_PER_BATCH, MIN_TRADE_AMOUNT, MAKER_FEE_BASIS_POINTS>>.  int()
\* takes any integer the environment holds, a negative one included.
BuildConfigs == {<<-1, 1, 10>>, <<1, 1, 10>>, <<2, 2, 10>>, <<2, 1, -10>>}

\* Runtime tuples (timestamp, feeBps, minTradeAmount) carried by payloads.
RuntimeTuples == {<<7, 30, 0>>, <<9, 50, 2>>}

Min(a, b) == IF a <= b THEN a ELSE b

UserOf(id) == IF id % 2 = 1 THEN "UA" ELSE "UB"

\* What an order can be besides its id and side: <<token, amount, price>>.
\* TKA orders take every amount and price; the second token TKB carries
\* orders of one size and price only.
Attrs == ({"TKA"} \X Amounts \X Prices) \cup {<<"TKB", 2, 100>>}

\* Order tuples as they sit in a payload:
\* (id, user, token, amount, price, isBuyOrder).
OrderTuple(id, a, side) == <<id, UserOf(id), a[1], a[2], a[3], side>>

\* Payloads by layout: "full" carries the runtime tuple, "legacy" only the
\* two order arrays, "invalid" matches neither layout.  Ids are distinct:
\* the buys take the odd ids and the sells the even ones (buysFirst), or
\* the other way round.
PayloadOf(layout, ba, sa, buysFirst, rt) ==
    [ layout |-> layout,
      buys  |-> [ k \in 1..Len(ba) |->
                    OrderTuple(IF buysFirst THEN 2 * k - 1 ELSE 2 * k, ba[k], TRUE) ],
      sells |-> [ k \in 1..Len(sa) |->
                    OrderTuple(IF buysFirst THEN 2 * k ELSE 2 * k - 1, sa[k], FALSE) ],
      runtime |-> rt ]

InvalidPayload ==
    [layout |-> "invalid", buys |-> <<>>, sells |-> <<>>, runtime |-> <<>>]

\* Lists of n orders with distinct ids 1..n, ascending or descending
\* along the list, each a buy or a sell.
OrderListOf(n, a, asc) ==
    [ k \in 1..n |->
        [ id |-> IF asc THEN k ELSE n + 1 - k,
          user |-> UserOf(IF asc THEN k ELSE n + 1 - k),
          token |-> a[k][1][1], amount |-> a[k][1][2], price |-> a[k][1][3],
          isBuyOrder |-> a[k][2], filled |-> 0 ] ]

(***************************************************************************)
(* ExchangeConfig                                                          *)
(***************************************************************************)
DefaultMakerFeeBps == 10
DefaultTakerFeeBps == 20

ExchangeConfigInit(max_trades, min_trade, maker_fee) ==
    [ exchange_mode            |-> "mock",
      max_trades_per_batch     |-> max_trades,
      min_trade_amount         |-> min_trade,
      maker_fee_bps            |-> maker_fee,
      taker_fee_bps            |-> DefaultTakerFeeBps,
      current_timestamp        |-> 0,
      runtime_fee_bps          |-> DefaultTakerFeeBps,
      runtime_min_trade_amount |-> min_trade ]

update_runtime_config(cfg, runtime_data) ==
    [cfg EXCEPT !.current_timestamp        = runtime_data[1],
                !.runtime_fee_bps          = runtime_data[2],
                !.runtime_min_trade_amount = runtime_data[3]]

get_runtime_min_trade_amount_only(cfg) == cfg.runtime_min_trade_amount

get_effective_min_trade_amount(cfg) ==
    IF cfg.runtime_min_trade_amount > 0
    THEN cfg.runtime_min_trade_amount
    ELSE cfg.min_trade_amount

get_effective_fee_bps(cfg) ==
    IF cfg.runtime_fee_bps > 0 THEN cfg.runtime_fee_bps ELSE cfg.taker_fee_bps

get_maker_fee_bps(cfg) == cfg.maker_fee_bps

get_taker_fee_bps(cfg) == cfg.taker_fee_bps

calculate_trade_fee(trade_amount, fee_bps) == (trade_amount * fee_bps) \div 10000

(***************************************************************************)
(* match_orders_for_token                                                  *)
(***************************************************************************)
\* key(a) < key(b) for the sort keys (-price, id) of buys (desc) and
\* (price, id) of sells.
KeyLess(a, b, desc) ==
    LET ka == IF desc THEN -a.price ELSE a.price
        kb == IF desc THEN -b.price ELSE b.price
    IN  ka < kb \/ (ka = kb /\ a.id < b.id)

\* x placed behind every element whose key is not greater (stable).
InsertByKey(x, s, desc) ==
    LET later == { i \in 1..Len(s) : KeyLess(x, s[i], desc) }
        k == IF later = {} THEN Len(s) + 1
             ELSE CHOOSE i \in later : \A j \in later : i <= j
    IN  SubSeq(s, 1, k - 1) \o <<x>> \o SubSeq(s, k, Len(s))

RECURSIVE SortByKey(_, _)
SortByKey(s, desc) ==
    IF s = <<>> THEN <<>>
    ELSE InsertByKey(s[Len(s)], SortByKey(SubSeq(s, 1, Len(s) - 1), desc), desc)

\* buys.sort(key=(-price, id)) and sells.sort(key=(price, id)).
SortBuysUnsorted(buys) == buys

SortBuys(buys) == SortByKey(buys, TRUE)

SortSellsUnsorted(sells) == sells

SortSells(sells) == SortByKey(sells, FALSE)

\* The frame at the head of the while loop, first time round.
MatchStart(token_orders, cfg) ==
    [ buys  |-> SortBuys(SelectSeq(token_orders, LAMBDA o : o.isBuyOrder)),
      sells |-> SortSells(SelectSeq(token_orders, LAMBDA o : ~o.isBuyOrder)),
      matched_trades_output_tuples |-> <<>>,
      buy_idx  |-> 0,
      sell_idx |-> 0,
      effective_min_trade |-> get_effective_min_trade_amount(cfg),
      broke |-> FALSE ]

\* The while condition, and the break taken before.
LoopCond(f) ==
    /\ ~f.broke
    /\ f.buy_idx < Len(f.buys)
    /\ f.sell_idx < Len(f.sells)

\* Line 298: the prices cross.
PricesCrossAlways(buy_order, sell_order) == TRUE

PricesCross(buy_order, sell_order) == buy_order.price >= sell_order.price

\* Lines 299-302.
TradeQuantityMax(buy_order, sell_order) ==
    LET a == buy_order.amount - buy_order.filled
        b == sell_order.amount - sell_order.filled
    IN  IF a >= b THEN a ELSE b

TradeQuantityUnit(buy_order, sell_order) == 1

TradeQuantity(buy_order, sell_order) ==
    Min(buy_order.amount - buy_order.filled,
        sell_order.amount - sell_order.filled)

\* Lines 309-322: the order with the smaller id is the maker and sets the
\* price.
TradePriceOfBuy(buy_order, sell_order) == buy_order.price

TradePrice(buy_order, sell_order) ==
    IF buy_order.id < sell_order.id THEN buy_order.price ELSE sell_order.price

\* Lines 326-328.
TotalFeeOnRateSum(total_trade_value, cfg) ==
    calculate_trade_fee(total_trade_value,
                        get_maker_fee_bps(cfg) + get_taker_fee_bps(cfg))

TotalFeeAtRuntimeRate(total_trade_value, cfg) ==
    calculate_trade_fee(total_trade_value, get_maker_fee_bps(cfg))
    + calculate_trade_fee(total_trade_value, get_effective_fee_bps(cfg))

TotalFee(total_trade_value, cfg) ==
    LET maker_fee == calculate_trade_fee(total_trade_value, get_maker_fee_bps(cfg))
        taker_fee == calculate_trade_fee(total_trade_value, get_taker_fee_bps(cfg))
    IN  maker_fee + taker_fee

\* Lines 333-342: the output tuple
\* (buyId, sellId, buyer, seller, token, price, quantity, fee).
TradeTuple(buy_order, sell_order, trade_quantity, cfg) ==
    LET trade_price == TradePrice(buy_order, sell_order)
        total_trade_value == trade_quantity * trade_price
        total_fee == TotalFee(total_trade_value, cfg)
    IN  << buy_order.id, sell_order.id, buy_order.user, sell_order.user,
           buy_order.token, trade_price, trade_quantity, total_fee >>

\* One pass through the body of the while loop.
MatchIterBuyFillOnly(f, cfg) ==
    LET buy_order  == f.buys[f.buy_idx + 1]
        sell_order == f.sells[f.sell_idx + 1]
    IN  IF PricesCross(buy_order, sell_order)
        THEN LET trade_quantity == TradeQuantity(buy_order, sell_order)
                 emit == trade_quantity >= f.effective_min_trade
                 bfilled == IF emit THEN buy_order.filled + trade_quantity
                            ELSE buy_order.filled
             IN  [f EXCEPT
                    !.matched_trades_output_tuples =
                        IF emit
                        THEN Append(@, TradeTuple(buy_order, sell_order,
                                                  trade_quantity, cfg))
                        ELSE @,
                    !.buys[f.buy_idx + 1].filled = bfilled,
                    !.buy_idx  = IF bfilled >= buy_order.amount THEN @ + 1 ELSE @]
        ELSE [f EXCEPT !.broke = TRUE]

MatchIter(f, cfg) ==
    LET buy_order  == f.buys[f.buy_idx + 1]
        sell_order == f.sells[f.sell_idx + 1]
    IN  IF PricesCross(buy_order, sell_order)
        THEN LET trade_quantity == TradeQuantity(buy_order, sell_order)
                 emit == trade_quantity >= f.effective_min_trade
                 bfilled == IF emit THEN buy_order.filled + trade_quantity
                            ELSE buy_order.filled
                 sfilled == IF emit THEN sell_order.filled + trade_quantity
                            ELSE sell_order.filled
             IN  [f EXCEPT
                    !.matched_trades_output_tuples =
                        IF emit
                        THEN Append(@, TradeTuple(buy_order, sell_order,
                                                  trade_quantity, cfg))
                        ELSE @,
                    !.buys[f.buy_idx + 1].filled = bfilled,
                    !.sells[f.sell_idx + 1].filled = sfilled,
                    !.buy_idx  = IF bfilled >= buy_order.amount THEN @ + 1 ELSE @,
                    !.sell_idx = IF sfilled >= sell_order.amount THEN @ + 1 ELSE @]
        ELSE [f EXCEPT !.broke = TRUE]

(***************************************************************************)
(* match_orders_for_token run to its end                                   *)
(***************************************************************************)
\* The frame the loop ends in; a frame that a pass leaves as it was is the
\* loop going round for ever.
RECURSIVE RunMatch(_, _)
RunMatch(f, cfg) ==
    IF ~LoopCond(f) THEN f
    ELSE LET g == MatchIter(f, cfg)
         IN  IF g = f THEN f ELSE RunMatch(g, cfg)

NoFrame == [ buys |-> <<>>, sells |-> <<>>, matched_trades_output_tuples |-> <<>>,
             buy_idx |-> 0, sell_idx |-> 0, effective_min_trade |-> 0,
             broke |-> FALSE ]

\* The orders of a group after the call on them: match_orders_for_token
\* fills the caller's dicts in place.
FilledBack(os, f) ==
    LET done == f.buys \o f.sells
    IN  [ k \in 1..Len(os) |->
            IF \E j \in 1..Len(done) : done[j].id = os[k].id
            THEN [os[k] EXCEPT !.filled =
                     done[CHOOSE j \in 1..Len(done) : done[j].id = os[k].id].filled]
            ELSE os[k] ]

(***************************************************************************)
(* handle_order_request                                                    *)
(***************************************************************************)
NoResult == [type |-> "none", payload |-> <<>>]

NoPayload == [layout |-> "none", buys |-> <<>>, sells |-> <<>>, runtime |-> <<>>]

\* An address read as a uint256 word.
AddressWord(user) == IF user = "UA" THEN 10 ELSE 11

\* Words 3 to 5 of a two-array encoding, where the three-field decode
\* reads the runtime tuple: the length of the buy array and what follows
\* it (the first buy order's id and user, or with no buy order the length
\* of the sell array and the first sell order's id).
LegacyHeadWords(p) ==
    IF Len(p.buys) > 0
    THEN <<Len(p.buys), p.buys[1][1], AddressWord(p.buys[1][2])>>
    ELSE <<0, Len(p.sells), p.sells[1][1]>>

\* Line 179: the three-field decode succeeds on its own layout, and, with
\* a codec that does not check the array offsets against the head, on a
\* two-array encoding long enough to hold the three words.
DecodesAsFull(p) ==
    \/ p.layout = "full"
    \/ /\ codec = "lenient"
       /\ p.layout = "legacy"
       /\ Len(p.buys) + Len(p.sells) >= 1

\* The three-field decode, then the two-field one: which layout was read.
DecodedLayout(p) ==
    IF DecodesAsFull(p) THEN "full"
    ELSE IF p.layout = "legacy" THEN "legacy"
    ELSE "error"

\* Lines 182-190: the runtime tuple the three-field decode gave.
RuntimeTupleOf(p) ==
    IF p.layout = "full" THEN p.runtime ELSE LegacyHeadWords(p)

order_dict(order_tuple, cfg) ==
    [ id |-> order_tuple[1], user |-> order_tuple[2], token |-> order_tuple[3],
      amount |-> order_tuple[4], price |-> order_tuple[5],
      isBuyOrder |-> order_tuple[6],
      filled |-> 0, timestamp |-> cfg.current_timestamp ]

\* orders_by_token as the insertion-ordered dict it is: a sequence of
\* [token, orders] in order of first occurrence.
GroupAddToFirst(groups, order) ==
    IF groups = <<>>
    THEN <<[token |-> order.token, orders |-> <<order>>]>>
    ELSE [groups EXCEPT ![1].orders = Append(@, order)]

GroupAdd(groups, order) ==
    IF \E i \in 1..Len(groups) : groups[i].token = order.token
    THEN [ i \in 1..Len(groups) |->
             IF groups[i].token = order.token
             THEN [groups[i] EXCEPT !.orders = Append(@, order)]
             ELSE groups[i] ]
    ELSE Append(groups, [token |-> order.token, orders |-> <<order>>])

RECURSIVE GroupOrders(_)
GroupOrders(os) ==
    IF os = <<>> THEN <<>>
    ELSE GroupAdd(GroupOrders(SubSeq(os, 1, Len(os) - 1)), os[Len(os)])

\* Lines 202-240: the dust filter and the grouping, buy array first.
PartitionUnfiltered(raw_buy_orders, raw_sell_orders, cfg) ==
    LET raw == raw_buy_orders \o raw_sell_orders
    IN  GroupOrders([ k \in 1..Len(raw) |-> order_dict(raw[k], cfg) ])

Partition(raw_buy_orders, raw_sell_orders, cfg) ==
    LET effective_min_trade == get_effective_min_trade_amount(cfg)
        raw == raw_buy_orders \o raw_sell_orders
        dicts == [ k \in 1..Len(raw) |-> order_dict(raw[k], cfg) ]
    IN  GroupOrders(SelectSeq(dicts, LAMBDA o : ~(o.amount < effective_min_trade)))

\* Python's s[:n].
SliceToAll(s, n) == s

SliceFromEnd(s, n) ==
    IF n >= Len(s) THEN s ELSE SubSeq(s, Len(s) - n + 1, Len(s))

SliceTo(s, n) ==
    IF n >= 0 THEN SubSeq(s, 1, Min(n, Len(s)))
    ELSE SubSeq(s, 1, Len(s) + n)

\* The uint256 members of a trade tuple (line 158): buy id, sell id, price,
\* quantity, fee.
UintMembers == {1, 2, 6, 7, 8}

\* The number of binary digits of a natural number.
RECURSIVE BitLength(_)
BitLength(x) == IF x = 0 THEN 0 ELSE 1 + BitLength(x \div 2)

\* eth_abi accepts for a uint256 an integer from 0 to 2^256 - 1, that is
\* a natural number of at most 256 binary digits.
InUint256(x) == x >= 0 /\ BitLength(x) <= 256

Encodable(trades) ==
    \A i \in 1..Len(trades) : \A k \in UintMembers : InUint256(trades[i][k])

\* What encode leaves in place of its value when it raises.
ValueOutOfBounds == <<"ValueOutOfBounds">>

\* eth_abi encode of the trade array: offset word, length word, then the
\* eight words of every tuple; ValueOutOfBounds is raised when a member of
\* a tuple is no uint256.
RECURSIVE EncodeTuples(_)
EncodeTuples(trades) ==
    IF trades = <<>> THEN <<>>
    ELSE trades[1] \o EncodeTuples(Tail(trades))

encode(trades) ==
    IF Encodable(trades)
    THEN <<32, Len(trades)>> \o EncodeTuples(trades)
    ELSE ValueOutOfBounds

NoticeUnlessEmpty(trades) ==
    IF trades = <<>>
    THEN [type |-> "report",
          payload |-> <<"Error processing order request", "no trades">>]
    ELSE [type |-> "notice", payload |-> encode(trades)]

Notice(trades) == [type |-> "notice", payload |-> encode(trades)]

Report(why) == [type |-> "report",
                payload |-> <<"Error processing order request", why>>]

\* Lines 262-270: the trades collected are encoded and returned as a
\* notice; an encode that raises is caught at line 267 and reported.
ReturnedUnchecked(trades) == Notice(trades)

Returned(trades) ==
    IF Encodable(trades) THEN Notice(trades) ELSE Report("encode")

\* The for loop over orders_by_token (lines 247-260) from group i on, with
\* the trades collected and counted so far.  Ends with the loop left
\* (hung = FALSE) or inside a match_orders_for_token that does not return.
RECURSIVE ForTokens(_, _, _, _, _)
ForTokens(cfg, groups, i, all, total) ==
    IF i > Len(groups) \/ total >= cfg.max_trades_per_batch
    THEN [ groups |-> groups, token_i |-> i, all |-> all, total |-> total,
           hung |-> FALSE, frame |-> NoFrame ]
    ELSE LET f == RunMatch(MatchStart(groups[i].orders, cfg), cfg)
             token_matched_trades == f.matched_trades_output_tuples
             remaining_capacity == cfg.max_trades_per_batch - total
             trades_to_add == SliceTo(token_matched_trades, remaining_capacity)
             filled == [groups EXCEPT ![i].orders = FilledBack(@, f)]
         IN  IF LoopCond(f)
             THEN [ groups |-> filled, token_i |-> i, all |-> all,
                    total |-> total, hung |-> TRUE, frame |-> f ]
             ELSE ForTokens(cfg, filled, i + 1, all \o trades_to_add,
                            total + Len(trades_to_add))

\* The configuration the batch runs under.
BatchConfig(cfg, p) ==
    IF DecodedLayout(p) = "full"
    THEN update_runtime_config(cfg, RuntimeTupleOf(p))
    ELSE cfg

\* A call of handle_order_request on an engine whose configuration is cfg:
\* the configuration it leaves, where its for loop ended, and what it
\* returns (nothing when it is caught in a loop that does not end): a
\* report when decode raises (line 179) or encode raises (line 263), a
\* notice otherwise.
HandleRun(cfg, p) ==
    IF DecodedLayout(p) = "error"
    THEN [ config |-> cfg, hung |-> FALSE, result |-> Report("decode"),
           groups |-> <<>>, token_i |-> 0, all |-> <<>>, total |-> 0,
           frame |-> NoFrame ]
    ELSE LET c == BatchConfig(cfg, p)
             r == ForTokens(c, Partition(p.buys, p.sells, c), 1, <<>>, 0)
         IN  [ config |-> c, hung |-> r.hung,
               result |-> IF r.hung THEN NoResult ELSE Returned(r.all),
               groups |-> r.groups, token_i |-> r.token_i, all |-> r.all,
               total |-> r.total, frame |-> r.frame ]

\* One call of handle_order_request.
HandleOrderRequest(p) ==
    /\ pc = "idle"
    /\ payload' = p
    /\ \E r \in {HandleRun(config, p)} :
         /\ config' = r.config
         /\ orders_by_token' = r.groups
         /\ token_i' = r.token_i
         /\ all_matched_trades_tuples' = r.all
         /\ total_processed' = r.total
         /\ m' = r.frame
         /\ pc' = IF r.hung THEN "handle_order_request" ELSE "returned"
         /\ result' = r.result
    /\ UNCHANGED orders

\* One pass through the while loop of match_orders_for_token; the dicts
\* it fills (lines 344-345) are the ones the caller's lists hold.
MatchStep ==
    /\ pc \in {"handle_order_request", "match_orders"}
    /\ LoopCond(m)
    /\ m' = MatchIter(m, config)
    /\ orders' = FilledBack(orders, MatchIter(m, config))
    /\ orders_by_token' =
          [orders_by_token EXCEPT ![token_i].orders =
              FilledBack(@, MatchIter(m, config))]
    /\ UNCHANGED <<config, pc, payload, token_i,
                   all_matched_trades_tuples, total_processed, result>>
    /\ UNCHANGED adapter_vars
    /\ UNCHANGED service_vars
    /\ UNCHANGED build_vars

\* The caller takes the result; the call's frames are gone and only the
\* module-level config lives on to the next call.
TakeResult ==
    /\ pc = "returned"
    /\ pc' = "idle"
    /\ payload' = NoPayload
    /\ orders' = <<>>
    /\ orders_by_token' = <<>>
    /\ token_i' = 0
    /\ m' = NoFrame
    /\ all_matched_trades_tuples' = <<>>
    /\ total_processed' = 0
    /\ result' = NoResult
    /\ UNCHANGED config
    /\ UNCHANGED adapter_vars
    /\ UNCHANGED service_vars
    /\ UNCHANGED build_vars

\* The threads of a service: werkzeug gives every request one of its own;
\* two requests are in the service at a time.
Threads == {"t1", "t2"}

\* python_runner_server: no request answered yet.
NoResponse == [status |-> 0, kind |-> "none", output_payload_hex |-> <<>>]

\* A thread of python_runner_server with no request: the view it runs, where
\* it is, and the locals of its handle_order_request call.
NoView ==
    [ route |-> "none", pc |-> "idle", payload |-> NoPayload,
      effective_min_trade |-> 0, order_k |-> 0, orders_by_token |-> <<>>,
      token_i |-> 0, m |-> NoFrame, all_matched_trades_tuples |-> <<>>,
      total_processed |-> 0, result |-> NoResult, response |-> NoResponse ]

\* A thread that is not in the wrapper of a CircuitBreaker.
NoWrapper == [pc |-> "idle", ran_in |-> "none", trial |-> FALSE, clock |-> 0,
              failures |-> 0]

\* CircuitBreaker.__init__.
CircuitBreakerInit(failure_threshold, recovery_timeout) ==
    [ failure_threshold |-> failure_threshold,
      recovery_timeout |-> recovery_timeout,
      failures |-> 0, state |-> "CLOSED", last_failure_time |-> 0 ]

\* The module-level instance of circuit_breaker.py.
blockchain_breaker == CircuitBreakerInit(5, 60)

\* No call has gone through the breaker.
NoCall == [invoked |-> FALSE, outcome |-> "none", ran_in |-> "none"]

\* The eth_abi releases the import of line 6 can bring: those that check
\* the offsets of a decoded tuple (InvalidPointer) and those that do not.
Codecs == {"strict", "lenient"}

\* The module after import: the configuration, the codec, no call made.
ModuleInit ==
    /\ config \in { ExchangeConfigInit(b[1], b[2], b[3]) : b \in BuildConfigs }
    /\ codec \in Codecs
    /\ payload = NoPayload
    /\ orders = <<>>
    /\ orders_by_token = <<>>
    /\ token_i = 0
    /\ m = NoFrame
    /\ all_matched_trades_tuples = <<>>
    /\ total_processed = 0
    /\ result = NoResult
    /\ request_type = "none"
    /\ finish_response = "accept"
    /\ posted = <<>>
    /\ calls = 0
    /\ raised = FALSE
    /\ finish_http = "ok"
    /\ views = [t \in Threads |-> NoView]

\* The engine, the rollup loop and the runner waiting for input.
EngineInit ==
    /\ ModuleInit
    /\ pc = "idle"

Init ==
    /\ EngineInit
    /\ breaker = blockchain_breaker
    /\ now = 1
    /\ last_call = NoCall
    /\ wrappers = [t \in Threads |-> NoWrapper]

AttrSeqs(n) == UNION { [1..k -> Attrs] : k \in 0..n }

\* handle_order_request called on some payload.
HandleAnyPayload ==
    \/ \E ba \in AttrSeqs(MaxBuys), sa \in AttrSeqs(MaxSells),
          buysFirst \in BOOLEAN :
          \/ \E rt \in RuntimeTuples :
               HandleOrderRequest(PayloadOf("full", ba, sa, buysFirst, rt))
          \/ HandleOrderRequest(PayloadOf("legacy", ba, sa, buysFirst, <<>>))
    \/ HandleOrderRequest(InvalidPayload)

Receive ==
    /\ pc = "idle"
    /\ HandleAnyPayload
    /\ UNCHANGED adapter_vars
    /\ UNCHANGED service_vars
    /\ UNCHANGED build_vars

(***************************************************************************)
(* match_orders                                                            *)
(***************************************************************************)
TradesResult(trades) == [type |-> "trades", payload |-> trades]

\* Head of the for loop over token_groups (lines 383-386), falling
\* through to the return when the groups are used up.
RECURSIVE Flatten(_)
Flatten(groups) ==
    IF groups = <<>> THEN <<>>
    ELSE groups[1].orders \o Flatten(Tail(groups))

MatchOrdersForUngrouped(groups, i, all) ==
    IF i <= Len(groups)
    THEN /\ pc' = "match_orders"
         /\ m' = MatchStart(Flatten(groups), config)
         /\ result' = NoResult
    ELSE /\ pc' = "returned"
         /\ m' = NoFrame
         /\ result' = [type |-> "trades", payload |-> all]

MatchOrdersFor(groups, i, all) ==
    IF i <= Len(groups)
    THEN /\ pc' = "match_orders"
         /\ m' = MatchStart(groups[i].orders, config)
         /\ result' = NoResult
    ELSE /\ pc' = "returned"
         /\ m' = NoFrame
         /\ result' = TradesResult(all)

\* A call of match_orders up to its first match_orders_for_token.
MatchOrdersDustFiltered(os) ==
    LET kept == SelectSeq(os, LAMBDA o :
                    o.amount >= get_effective_min_trade_amount(config))
    IN  /\ pc = "idle"
        /\ orders' = os
        /\ orders_by_token' = GroupOrders(kept)
        /\ token_i' = 1
        /\ all_matched_trades_tuples' = <<>>
        /\ total_processed' = 0
        /\ MatchOrdersFor(GroupOrders(kept), 1, <<>>)
        /\ UNCHANGED <<config, payload>>
        /\ UNCHANGED adapter_vars
        /\ UNCHANGED service_vars
        /\ UNCHANGED build_vars

MatchOrders(os) ==
    /\ pc = "idle"
    /\ orders' = os
    /\ orders_by_token' = GroupOrders(os)
    /\ token_i' = 1
    /\ all_matched_trades_tuples' = <<>>
    /\ total_processed' = 0
    /\ MatchOrdersFor(GroupOrders(os), 1, <<>>)
    /\ UNCHANGED <<config, payload>>
    /\ UNCHANGED adapter_vars
    /\ UNCHANGED service_vars
    /\ UNCHANGED build_vars

\* match_orders_for_token returns to match_orders (lines 386-388), which
\* goes round its for loop.
MatchOrdersNext ==
    /\ pc = "match_orders"
    /\ ~LoopCond(m)
    /\ LET token_trades == m.matched_trades_output_tuples
           all == all_matched_trades_tuples \o token_trades
           groups == [orders_by_token EXCEPT ![token_i].orders = FilledBack(@, m)]
       IN  /\ all_matched_trades_tuples' = all
           /\ total_processed' = total_processed + Len(token_trades)
           /\ orders_by_token' = groups
           /\ token_i' = token_i + 1
           /\ MatchOrdersFor(groups, token_i + 1, all)
    /\ UNCHANGED <<config, payload, orders>>
    /\ UNCHANGED adapter_vars
    /\ UNCHANGED service_vars
    /\ UNCHANGED build_vars

\* Lists of four orders over two tokens, a buy and a sell of each, in
\* any order.
TwoMarketLists ==
    { OrderListOf(4, [ k \in 1..4 |->
                         << <<ba, TRUE>>, <<sa, FALSE>>,
                            <<<<"TKB", 2, 100>>, TRUE>>,
                            <<<<"TKB", 2, 100>>, FALSE>> >>[p[k]] ], asc) :
        ba \in {"TKA"} \X Amounts \X Prices,
        sa \in {"TKA"} \X Amounts \X Prices,
        p \in Permutations(1..4), asc \in BOOLEAN }

Call ==
    /\ pc = "idle"
    /\ \/ \E n \in 0..MaxOrders :
            \E a \in [1..n -> Attrs \X BOOLEAN], asc \in BOOLEAN :
               MatchOrders(OrderListOf(n, a, asc))
       \/ \E os \in TwoMarketLists : MatchOrders(os)

MatchInit ==
    /\ Init
    /\ config.max_trades_per_batch > 0

MatchNext ==
    \/ Call
    \/ MatchStep
    \/ MatchOrdersNext
    \/ TakeResult

MatchSpec == MatchInit /\ [][MatchNext]_vars

Next ==
    \/ Receive
    \/ MatchStep
    \/ TakeResult

Spec == Init /\ [][Next]_vars

\* Both entry points of the engine.
ApiSpec == Init /\ [][Next \/ MatchNext]_vars

(***************************************************************************)
(* cartesi_rollups_main                                                    *)
(***************************************************************************)
\* What a POST to the rollup server comes to: status 200, another status,
\* or a transport error (requests.exceptions.RequestException).
HttpOutcomes == {"ok", "status_error", "request_exception"}

\* A POST the loop has sent to /notice or /report, with the answer it got.
Output(endpoint, body, http) ==
    [endpoint |-> endpoint, payload |-> body, status |-> http]

\* Lines 456-463: the status record of an inspect request.
StatusInfoBuildMin(cfg) ==
    [ exchange_mode        |-> cfg.exchange_mode,
      max_trades_per_batch |-> cfg.max_trades_per_batch,
      min_trade_amount     |-> cfg.min_trade_amount,
      maker_fee_bps        |-> get_maker_fee_bps(cfg),
      taker_fee_bps        |-> get_taker_fee_bps(cfg),
      current_timestamp    |-> cfg.current_timestamp ]

StatusInfo(cfg) ==
    [ exchange_mode        |-> cfg.exchange_mode,
      max_trades_per_batch |-> cfg.max_trades_per_batch,
      min_trade_amount     |-> get_effective_min_trade_amount(cfg),
      maker_fee_bps        |-> get_maker_fee_bps(cfg),
      taker_fee_bps        |-> get_taker_fee_bps(cfg),
      current_timestamp    |-> cfg.current_timestamp ]

\* The locals of handle_order_request are gone once it has returned.
HandlerFrameGone ==
    /\ orders' = <<>>
    /\ orders_by_token' = <<>>
    /\ token_i' = 0
    /\ m' = NoFrame
    /\ all_matched_trades_tuples' = <<>>
    /\ total_processed' = 0

call_vars == <<payload, orders, orders_by_token, token_i, m,
               all_matched_trades_tuples, total_processed, result>>

\* Lines 426-433: an advance_state request with a payload; the engine is
\* called on it.
AdvanceState ==
    /\ pc = "idle"
    /\ request_type' = "advance_state"
    /\ calls' = calls + 1
    /\ HandleAnyPayload
    /\ UNCHANGED <<finish_response, posted, raised, finish_http>>
    /\ UNCHANGED service_vars
    /\ UNCHANGED build_vars

\* Lines 436-446: the result's payload goes to /notice; payload and result
\* stay as the loop's locals.
PostNoticeTwice ==
    /\ pc = "returned"
    /\ request_type = "advance_state"
    /\ \E http \in HttpOutcomes :
         IF http = "request_exception"
         THEN /\ pc' = "exited"
              /\ UNCHANGED <<finish_response, posted>>
         ELSE /\ pc' = "finish"
              /\ posted' = posted \o <<Output("notice", result.payload, http),
                                       Output("notice", result.payload, http)>>
              /\ finish_response' = "accept"
    /\ HandlerFrameGone
    /\ UNCHANGED <<config, request_type, payload, result>>
    /\ UNCHANGED <<calls, raised, finish_http>>
    /\ UNCHANGED service_vars
    /\ UNCHANGED build_vars

PostNotice ==
    /\ pc = "returned"
    /\ request_type = "advance_state"
    /\ \E http \in HttpOutcomes :
         IF http = "request_exception"
         THEN /\ pc' = "exited"
              /\ UNCHANGED <<finish_response, posted>>
         ELSE /\ pc' = "finish"
              /\ posted' = Append(posted, Output("notice", result.payload, http))
              /\ finish_response' = "accept"
    /\ HandlerFrameGone
    /\ UNCHANGED <<config, request_type, payload, result>>
    /\ UNCHANGED <<calls, raised, finish_http>>
    /\ UNCHANGED service_vars
    /\ UNCHANGED build_vars

\* Lines 426-431, 446: an advance_state request without a payload.
AdvanceEmpty ==
    /\ pc = "idle"
    /\ request_type' = "advance_state"
    /\ finish_response' = "accept"
    /\ pc' = "finish"
    /\ UNCHANGED <<config, posted, calls, raised, finish_http>>
    /\ UNCHANGED call_vars
    /\ UNCHANGED service_vars
    /\ UNCHANGED build_vars

\* Lines 448-473: an inspect_state request.
InspectState ==
    /\ pc = "idle"
    /\ request_type' = "inspect_state"
    /\ \E http \in HttpOutcomes :
         IF http = "request_exception"
         THEN /\ pc' = "exited"
              /\ UNCHANGED <<finish_response, posted>>
         ELSE /\ pc' = "finish"
              /\ posted' = Append(posted, Output("report", StatusInfo(config), http))
              /\ finish_response' = "accept"
    /\ UNCHANGED <<config, calls, raised, finish_http>>
    /\ UNCHANGED call_vars
    /\ UNCHANGED service_vars
    /\ UNCHANGED build_vars

\* Lines 475-477: a request of another type.
UnknownRequestAccepted ==
    /\ pc = "idle"
    /\ request_type' = "unknown"
    /\ finish_response' = "accept"
    /\ pc' = "finish"
    /\ UNCHANGED <<config, posted, calls, raised, finish_http>>
    /\ UNCHANGED call_vars
    /\ UNCHANGED service_vars
    /\ UNCHANGED build_vars

UnknownRequest ==
    /\ pc = "idle"
    /\ request_type' = "unknown"
    /\ finish_response' = "reject"
    /\ pc' = "finish"
    /\ UNCHANGED <<config, posted, calls, raised, finish_http>>
    /\ UNCHANGED call_vars
    /\ UNCHANGED service_vars
    /\ UNCHANGED build_vars

\* Lines 423-429, 450-451, 486-488: the response body is not a request
\* record, or its data field is none, and reading it raises, before or
\* after the request type was read.
BadRequestData ==
    /\ pc = "idle"
    /\ request_type' \in {"none", "advance_state", "inspect_state"}
    /\ raised' = TRUE
    /\ finish_response' = "reject"
    /\ pc' = "finish"
    /\ UNCHANGED <<config, posted, calls, finish_http>>
    /\ UNCHANGED call_vars
    /\ UNCHANGED service_vars
    /\ UNCHANGED build_vars

\* Line 423: the answer to POST /finish has status 200 and a body that is
\* not JSON; with a requests whose JSONDecodeError is a RequestException
\* the loop stops (lines 483-485), with an older one BadRequestData applies.
BadResponseBody ==
    /\ pc = "idle"
    /\ pc' = "exited"
    /\ UNCHANGED config
    /\ UNCHANGED adapter_vars
    /\ UNCHANGED call_vars
    /\ UNCHANGED service_vars
    /\ UNCHANGED build_vars

\* Lines 409, 490-492: the build has no requests library; the function
\* returns before the loop.
RequestsMissing ==
    /\ pc = "finish"
    /\ request_type = "none"
    /\ ~raised
    /\ pc' = "exited"
    /\ UNCHANGED config
    /\ UNCHANGED adapter_vars
    /\ UNCHANGED call_vars
    /\ UNCHANGED service_vars
    /\ UNCHANGED build_vars

\* Lines 420-422, 479-485: POST /finish with the status; the server takes
\* the request's outputs and the loop waits for the next request, or
\* stops on a status other than 200 or a transport error.
Finish ==
    /\ pc = "finish"
    /\ \E http \in HttpOutcomes :
         /\ finish_http' = http
         /\ IF http = "ok"
            THEN /\ pc' = "idle"
                 /\ posted' = <<>>
                 /\ request_type' = "none"
                 /\ calls' = 0
                 /\ raised' = FALSE
                 /\ payload' = NoPayload
                 /\ result' = NoResult
            ELSE /\ pc' = "exited"
                 /\ UNCHANGED <<posted, request_type, calls, raised,
                                payload, result>>
    /\ UNCHANGED <<config, finish_response>>
    /\ UNCHANGED <<orders, orders_by_token, token_i, m,
                   all_matched_trades_tuples, total_processed>>
    /\ UNCHANGED service_vars
    /\ UNCHANGED build_vars

AdapterNext ==
    \/ AdvanceState
    \/ MatchStep
    \/ PostNotice
    \/ AdvanceEmpty
    \/ InspectState
    \/ UnknownRequest
    \/ BadRequestData
    \/ BadResponseBody
    \/ RequestsMissing
    \/ Finish

\* cartesi_rollups_main entered: the first POST /finish, with accept
\* (line 415), is still to be sent.
AdapterInit ==
    /\ ModuleInit
    /\ pc = "finish"
    /\ breaker = blockchain_breaker
    /\ now = 1
    /\ last_call = NoCall
    /\ wrappers = [t \in Threads |-> NoWrapper]

\* The rollup loop.
AdapterSpec == AdapterInit /\ [][AdapterNext]_vars

(***************************************************************************)
(* python_runner_server: POST /execute and POST /execute-raw.  app.run     *)
(* (line 155) serves each request on a thread of its own; the threads      *)
(* share the engine's module-level config and nothing else, and no lock    *)
(* guards it.  A thread can be overtaken at the calls it makes between     *)
(* two accesses of config: the log records of update_runtime_config and    *)
(* of handle_order_request, and the appends of the grouping loops.         *)
(***************************************************************************)
Routes == {"execute", "execute_raw"}

\* The bodies the requests carry: full and legacy layouts over a few order
\* books, and bytes that are neither (on /execute-raw any other body, a
\* JSON text included).
RunnerPayloads ==
    { PayloadOf("full", << <<"TKA", 1, 100>> >>, << <<"TKA", 1, 100>> >>,
                TRUE, <<9, 50, 2>>),
      PayloadOf("full", <<>>, <<>>, TRUE, <<7, 30, 0>>),
      PayloadOf("full", << <<"TKA", 3, 100>> >>,
                << <<"TKA", 2, 100>>, <<"TKA", 2, 100>> >>, TRUE, <<9, 50, 2>>),
      PayloadOf("legacy", << <<"TKA", 1, 100>> >>,
                << <<"TKB", 2, 100>>, <<"TKA", 1, 100>> >>, TRUE, <<>>),
      PayloadOf("legacy", <<>>, <<>>, TRUE, <<>>),
      InvalidPayload }

\* Lines 65-77 of /execute: the answer made from the engine's result.
ExecuteResponse(result_dict) ==
    IF result_dict.type = "error"
    THEN [status |-> 500, kind |-> "error", output_payload_hex |-> <<>>]
    ELSE [status |-> 200, kind |-> "output",
          output_payload_hex |-> result_dict.payload]

\* Lines 118-136 of /execute-raw: the payload's bytes themselves, as
\* application/octet-stream.
ExecuteRawResponse(result_dict) ==
    IF result_dict.type = "error"
    THEN [status |-> 500, kind |-> "error", output_payload_hex |-> <<>>]
    ELSE [status |-> 200, kind |-> "octet-stream",
          output_payload_hex |-> result_dict.payload]

\* offchain_logic.py lines 174-200 up to the first write of config: the
\* payload decoded.  A full layout goes on to update_runtime_config, the
\* legacy layout to the log record of line 200, anything else to the
\* report of lines 267-270.
HandlerDecode(v, route, p) ==
    [v EXCEPT !.route = route,
              !.payload = p,
              !.pc = CASE DecodedLayout(p) = "full" -> "update_timestamp"
                       [] DecodedLayout(p) = "legacy" -> "decoded"
                       [] OTHER -> "returned",
              !.result = IF DecodedLayout(p) = "error"
                         THEN Report("decode") ELSE NoResult]

\* Lines 204-240, one order of the two arrays (buy array first): the order
\* takes config.current_timestamp as it is now and joins its token's list
\* unless it is below the minimum read in line 204.
HandlerGroupOrder(v, cfg) ==
    LET raw == v.payload.buys \o v.payload.sells
        order == order_dict(raw[v.order_k], cfg)
        groups == IF order.amount < v.effective_min_trade
                  THEN v.orders_by_token
                  ELSE GroupAdd(v.orders_by_token, order)
    IN  IF v.order_k < Len(raw)
        THEN [v EXCEPT !.orders_by_token = groups, !.order_k = @ + 1]
        ELSE [v EXCEPT !.orders_by_token = groups, !.order_k = 0,
                       !.token_i = 1, !.pc = "grouped"]

\* Line 129 as a thread runs it: runtime_min_trade_amount is read for the
\* test, and read again for the value when the test succeeds; the build's
\* min_trade_amount, which no request writes, is read when it fails.
MinTradeTest(cfg) == cfg.runtime_min_trade_amount > 0

\* Line 204 done: the minimum is bound and the thread goes on to the first
\* order of the payload, or to the for loop when there is none.
HandlerMinTrade(v, min_trade) ==
    LET n == Len(v.payload.buys \o v.payload.sells)
    IN  [v EXCEPT !.effective_min_trade = min_trade,
                  !.order_k = IF n > 0 THEN 1 ELSE 0,
                  !.token_i = IF n > 0 THEN 0 ELSE 1,
                  !.pc = IF n > 0 THEN "grouping" ELSE "grouped"]

\* Line 248: the for loop is over, or the cap is reached.
TokensDone(v, cfg) ==
    \/ v.token_i > Len(v.orders_by_token)
    \/ v.total_processed >= cfg.max_trades_per_batch

\* Lines 262-270: the trades are encoded and the call returns.
HandlerReturn(v) ==
    [v EXCEPT !.pc = "returned",
              !.result = Returned(v.all_matched_trades_tuples)]

\* Lines 253-260 and 290-357, one turn of the for loop once line 290 has
\* got min_trade from the getter: the token is matched with that minimum
\* and the fee rates of the build; a match_orders_for_token that does not
\* return keeps the thread.
HandlerToken(v, cfg, min_trade) ==
    LET start == [MatchStart(v.orders_by_token[v.token_i].orders, cfg)
                    EXCEPT !.effective_min_trade = min_trade]
        f == RunMatch(start, cfg)
        remaining_capacity == cfg.max_trades_per_batch - v.total_processed
        trades_to_add == SliceTo(f.matched_trades_output_tuples,
                                 remaining_capacity)
        filled == [v.orders_by_token EXCEPT
                     ![v.token_i].orders = FilledBack(@, f)]
    IN  IF LoopCond(f)
        THEN [v EXCEPT !.orders_by_token = filled, !.m = f,
                       !.pc = "match_orders_for_token"]
        ELSE [v EXCEPT !.orders_by_token = filled,
                       !.pc = "grouped",
                       !.token_i = @ + 1,
                       !.all_matched_trades_tuples = @ \o trades_to_add,
                       !.total_processed = @ + Len(trades_to_add)]

\* A step of the runner leaves the rest of the model alone.
RunnerFrame ==
    /\ UNCHANGED <<pc, payload, orders, orders_by_token, token_i, m,
                   all_matched_trades_tuples, total_processed, result>>
    /\ UNCHANGED adapter_vars
    /\ UNCHANGED breaker_vars
    /\ UNCHANGED build_vars

\* /execute lines 37-61 and handle_order_request up to its first write of
\* config (line 118): a request with input; the "0x" prefix added in lines
\* 56-57 is the one hex_to_bytes strips, so the engine reads the same bytes.
ExecuteCall(t) ==
    /\ views[t].pc = "idle"
    /\ \E p \in RunnerPayloads :
         views' = [views EXCEPT ![t] = HandlerDecode(@, "execute", p)]
    /\ UNCHANGED config
    /\ RunnerFrame

\* /execute-raw lines 105-115 and handle_order_request up to its first
\* write of config: whatever the body is, its bytes go to the engine.
ExecuteRawCall(t) ==
    /\ views[t].pc = "idle"
    /\ \E p \in RunnerPayloads :
         views' = [views EXCEPT ![t] = HandlerDecode(@, "execute_raw", p)]
    /\ UNCHANGED config
    /\ RunnerFrame

\* update_runtime_config lines 117-119.
UpdateTimestamp(t) ==
    /\ views[t].pc = "update_timestamp"
    /\ config' = [config EXCEPT
                    !.current_timestamp = RuntimeTupleOf(views[t].payload)[1]]
    /\ views' = [views EXCEPT ![t].pc = "update_fee_bps"]
    /\ RunnerFrame

\* update_runtime_config lines 120-122.
UpdateFeeBps(t) ==
    /\ views[t].pc = "update_fee_bps"
    /\ config' = [config EXCEPT
                    !.runtime_fee_bps = RuntimeTupleOf(views[t].payload)[2]]
    /\ views' = [views EXCEPT ![t].pc = "update_min_trade_amount"]
    /\ RunnerFrame

\* update_runtime_config lines 123-125, then the log record of line 191.
UpdateMinTradeAmount(t) ==
    /\ views[t].pc = "update_min_trade_amount"
    /\ config' = [config EXCEPT
                    !.runtime_min_trade_amount =
                        RuntimeTupleOf(views[t].payload)[3]]
    /\ views' = [views EXCEPT ![t].pc = "decoded"]
    /\ RunnerFrame

\* Line 204, in the getter (line 129), the test: with no runtime minimum
\* the build's one is bound; with one, the value is still to be read.
ReadMinTrade(t) ==
    /\ views[t].pc = "decoded"
    /\ views' = [views EXCEPT
                   ![t] = IF MinTradeTest(config)
                          THEN [@ EXCEPT !.pc = "line204_value"]
                          ELSE HandlerMinTrade(@, config.min_trade_amount)]
    /\ UNCHANGED config
    /\ RunnerFrame

\* Line 204, in the getter (line 129), the value: runtime_min_trade_amount
\* as it is now, whatever the test found.
ReadMinTradeValue(t) ==
    /\ views[t].pc = "line204_value"
    /\ views' = [views EXCEPT
                   ![t] = HandlerMinTrade(@, config.runtime_min_trade_amount)]
    /\ UNCHANGED config
    /\ RunnerFrame

\* Lines 207-240: the next order of the payload.
GroupOrder(t) ==
    /\ views[t].pc = "grouping"
    /\ views' = [views EXCEPT ![t] = HandlerGroupOrder(@, config)]
    /\ UNCHANGED config
    /\ RunnerFrame

\* Lines 247-252 and, in match_orders_for_token, line 290 as far as the
\* test of the getter: the loop is left and the trades are encoded; or the
\* next token is matched with the build's minimum when there is no runtime
\* one; or the runtime value is still to be read.
MatchToken(t) ==
    /\ views[t].pc = "grouped"
    /\ views' = [views EXCEPT
                   ![t] = IF TokensDone(@, config) THEN HandlerReturn(@)
                          ELSE IF MinTradeTest(config)
                          THEN [@ EXCEPT !.pc = "line290_value"]
                          ELSE HandlerToken(@, config, config.min_trade_amount)]
    /\ UNCHANGED config
    /\ RunnerFrame

\* Line 290, in the getter (line 129), the value: runtime_min_trade_amount
\* as it is now, and the token matched with it.
MatchTokenValue(t) ==
    /\ views[t].pc = "line290_value"
    /\ views' = [views EXCEPT
                   ![t] = HandlerToken(@, config,
                                       config.runtime_min_trade_amount)]
    /\ UNCHANGED config
    /\ RunnerFrame

\* One pass through the while loop of a match_orders_for_token that does
\* not return: the thread stays in it and the request is never answered.
MatchSpin(t) ==
    /\ views[t].pc = "match_orders_for_token"
    /\ LoopCond(views[t].m)
    /\ views' = [views EXCEPT ![t].m = MatchIter(@, config)]
    /\ UNCHANGED config
    /\ RunnerFrame

\* /execute lines 62-77 and /execute-raw lines 117-136: the engine has
\* returned; its locals are gone.
ExecuteRespond(t) ==
    /\ views[t].pc = "returned"
    /\ views' = [views EXCEPT
                   ![t] = [NoView EXCEPT
                             !.route = views[t].route,
                             !.pc = "responded",
                             !.payload = views[t].payload,
                             !.result = views[t].result,
                             !.response =
                                 IF views[t].route = "execute"
                                 THEN ExecuteResponse(views[t].result)
                                 ELSE ExecuteRawResponse(views[t].result)]]
    /\ UNCHANGED config
    /\ RunnerFrame

\* /execute lines 39-40 and 47-48: JSON without input_payload_hex, or an
\* empty body, is answered 400; lines 43 and 88-95: an input_payload_hex
\* that is not a string raises and is answered 500.  The engine is not
\* called.
ExecuteBadInput(t) ==
    /\ views[t].pc = "idle"
    /\ \E bad \in {"missing", "empty", "not_string"} :
         views' = [views EXCEPT
                     ![t] = [NoView EXCEPT
                               !.route = "execute",
                               !.pc = "responded",
                               !.response =
                                   [status |-> IF bad = "not_string"
                                               THEN 500 ELSE 400,
                                    kind |-> "error",
                                    output_payload_hex |-> <<>>]]]
    /\ UNCHANGED config
    /\ RunnerFrame

\* /execute-raw lines 105-107: an empty body is answered 400.
ExecuteRawBadInput(t) ==
    /\ views[t].pc = "idle"
    /\ views' = [views EXCEPT
                   ![t] = [NoView EXCEPT
                             !.route = "execute_raw",
                             !.pc = "responded",
                             !.response = [status |-> 400, kind |-> "error",
                                           output_payload_hex |-> <<>>]]]
    /\ UNCHANGED config
    /\ RunnerFrame

\* The answer is sent; the thread ends.
ExecuteDone(t) ==
    /\ views[t].pc = "responded"
    /\ views' = [views EXCEPT ![t] = NoView]
    /\ UNCHANGED config
    /\ RunnerFrame

RunnerNext ==
    \E t \in Threads :
        \/ ExecuteCall(t)
        \/ ExecuteRawCall(t)
        \/ UpdateTimestamp(t)
        \/ UpdateFeeBps(t)
        \/ UpdateMinTradeAmount(t)
        \/ ReadMinTrade(t)
        \/ ReadMinTradeValue(t)
        \/ GroupOrder(t)
        \/ MatchToken(t)
        \/ MatchTokenValue(t)
        \/ MatchSpin(t)
        \/ ExecuteRespond(t)
        \/ ExecuteBadInput(t)
        \/ ExecuteRawBadInput(t)
        \/ ExecuteDone(t)

RunnerSpec == Init /\ [][RunnerNext]_vars

(***************************************************************************)
(* backend/utils/circuit_breaker.py: CircuitBreaker.__call__.  The backend *)
(* serves each request on a thread of its own and the class has no lock:   *)
(* a call can be overtaken between any two of its statements, after a     *)
(* clock read (lines 17 and 32) and while the wrapped function runs (line  *)
(* 25).  A thread's pc names the line it is about to run.                  *)
(***************************************************************************)
FailureThresholds == 1..2
RecoveryTimeouts == {1, 2}

\* Line 17: more than recovery_timeout has passed between the last failure
\* and the clock reading t.
RecoveryElapsed(b, t) == t - b.last_failure_time > b.recovery_timeout

\* Line 33: the counter has reached the threshold.
AtThreshold(b) == b.failures >= b.failure_threshold

engine_vars == <<config, pc, payload, orders, orders_by_token, token_i, m,
                 all_matched_trades_tuples, total_processed, result>>

\* A step of the wrapper leaves the rest of the model alone.
WrapperFrame ==
    /\ UNCHANGED views
    /\ UNCHANGED engine_vars
    /\ UNCHANGED adapter_vars
    /\ UNCHANGED build_vars

\* What a call that has ended came to.
CallEnded(invoked, outcome, ran_in) ==
    [invoked |-> invoked, outcome |-> outcome, ran_in |-> ran_in]

\* The thread moves on in the wrapper; the instance is not written.
Goto(t, label) ==
    /\ wrappers' = [wrappers EXCEPT ![t].pc = label]
    /\ UNCHANGED <<breaker, now, last_call>>
    /\ WrapperFrame

\* Line 16: a call reads the state.  OPEN sends it to line 17, any other
\* state to the function.
WrapperEnter(t) ==
    /\ wrappers[t].pc = "idle"
    /\ wrappers' = [wrappers EXCEPT
                      ![t] = IF breaker.state = "OPEN"
                             THEN [NoWrapper EXCEPT !.pc = "line17_clock"]
                             ELSE [NoWrapper EXCEPT !.pc = "line25",
                                                    !.ran_in = breaker.state]]
    /\ UNCHANGED <<breaker, now, last_call>>
    /\ WrapperFrame

\* Line 17, time.time(): the clock is read.
WrapperGateClock(t) ==
    /\ wrappers[t].pc = "line17_clock"
    /\ wrappers' = [wrappers EXCEPT ![t].pc = "line17_test", ![t].clock = now]
    /\ UNCHANGED <<breaker, now, last_call>>
    /\ WrapperFrame

\* Line 17, the test: the reading is compared with last_failure_time as it
\* is now, and is not used again.
WrapperGateTest(t) ==
    /\ wrappers[t].pc = "line17_test"
    /\ wrappers' = [wrappers EXCEPT
                      ![t].pc = IF RecoveryElapsed(breaker, wrappers[t].clock)
                                THEN "line18" ELSE "line20",
                      ![t].clock = 0]
    /\ UNCHANGED <<breaker, now, last_call>>
    /\ WrapperFrame

\* Line 18: the state is set to HALF_OPEN and the function is entered.
WrapperHalfOpen(t) ==
    /\ wrappers[t].pc = "line18"
    /\ breaker' = [breaker EXCEPT !.state = "HALF_OPEN"]
    /\ wrappers' = [wrappers EXCEPT ![t].pc = "line25",
                                    ![t].ran_in = "HALF_OPEN",
                                    ![t].trial = TRUE]
    /\ UNCHANGED <<now, last_call>>
    /\ WrapperFrame

\* Lines 20-22: the call raises without entering the function.
WrapperRefuse(t) ==
    /\ wrappers[t].pc = "line20"
    /\ wrappers' = [wrappers EXCEPT ![t] = NoWrapper]
    /\ last_call' = CallEnded(FALSE, "refused", "none")
    /\ UNCHANGED <<breaker, now>>
    /\ WrapperFrame

\* Line 25: the function returns.
WrapperFuncReturns(t) ==
    /\ wrappers[t].pc = "line25"
    /\ Goto(t, "line26")

\* Line 25: the function raises an Exception.
WrapperFuncRaises(t) ==
    /\ wrappers[t].pc = "line25"
    /\ Goto(t, "line31")

\* Line 25: the function raises something "except Exception" does not
\* catch; the wrapper does no bookkeeping.
WrapperBaseException(t) ==
    /\ wrappers[t].pc = "line25"
    /\ wrappers' = [wrappers EXCEPT ![t] = NoWrapper]
    /\ last_call' = CallEnded(TRUE, "base_exception", wrappers[t].ran_in)
    /\ UNCHANGED <<breaker, now>>
    /\ WrapperFrame

\* Line 26: the state is read again.
WrapperTestHalfOpen(t) ==
    /\ wrappers[t].pc = "line26"
    /\ Goto(t, IF breaker.state = "HALF_OPEN" THEN "line27" ELSE "line29")

\* Line 27.
WrapperClose(t) ==
    /\ wrappers[t].pc = "line27"
    /\ breaker' = [breaker EXCEPT !.state = "CLOSED"]
    /\ wrappers' = [wrappers EXCEPT ![t].pc = "line28"]
    /\ UNCHANGED <<now, last_call>>
    /\ WrapperFrame

\* Line 28.
WrapperReset(t) ==
    /\ wrappers[t].pc = "line28"
    /\ breaker' = [breaker EXCEPT !.failures = 0]
    /\ wrappers' = [wrappers EXCEPT ![t].pc = "line29"]
    /\ UNCHANGED <<now, last_call>>
    /\ WrapperFrame

\* Line 29: the call returns the function's result.
WrapperReturn(t) ==
    /\ wrappers[t].pc = "line29"
    /\ wrappers' = [wrappers EXCEPT ![t] = NoWrapper]
    /\ last_call' = CallEnded(TRUE, "return", wrappers[t].ran_in)
    /\ UNCHANGED <<breaker, now>>
    /\ WrapperFrame

\* Line 31, the right-hand side of +=: the counter is read.
WrapperCountRead(t) ==
    /\ wrappers[t].pc = "line31"
    /\ breaker.failures < MaxFailures
    /\ wrappers' = [wrappers EXCEPT ![t].pc = "line31_store",
                                    ![t].failures = breaker.failures]
    /\ UNCHANGED <<breaker, now, last_call>>
    /\ WrapperFrame

\* Line 31, the assignment of +=: the value read, plus one, is stored.
WrapperCount(t) ==
    /\ wrappers[t].pc = "line31_store"
    /\ breaker' = [breaker EXCEPT !.failures = wrappers[t].failures + 1]
    /\ wrappers' = [wrappers EXCEPT ![t].pc = "line32_clock",
                                    ![t].failures = 0]
    /\ UNCHANGED <<now, last_call>>
    /\ WrapperFrame

\* Line 32, time.time(): the clock is read.
WrapperFailClock(t) ==
    /\ wrappers[t].pc = "line32_clock"
    /\ wrappers' = [wrappers EXCEPT ![t].pc = "line32_store", ![t].clock = now]
    /\ UNCHANGED <<breaker, now, last_call>>
    /\ WrapperFrame

\* Line 32, the assignment: the reading is stored.
WrapperDate(t) ==
    /\ wrappers[t].pc = "line32_store"
    /\ breaker' = [breaker EXCEPT !.last_failure_time = wrappers[t].clock]
    /\ wrappers' = [wrappers EXCEPT ![t].pc = "line33"]
    /\ UNCHANGED <<now, last_call>>
    /\ WrapperFrame

\* Line 33: the counter is compared with the threshold.
WrapperTestThreshold(t) ==
    /\ wrappers[t].pc = "line33"
    /\ Goto(t, IF AtThreshold(breaker) THEN "line34" ELSE "line35")

\* Line 34.
WrapperOpen(t) ==
    /\ wrappers[t].pc = "line34"
    /\ breaker' = [breaker EXCEPT !.state = "OPEN"]
    /\ wrappers' = [wrappers EXCEPT ![t].pc = "line35"]
    /\ UNCHANGED <<now, last_call>>
    /\ WrapperFrame

\* Lines 35-37: the failure is logged and the exception raised again.
WrapperReraise(t) ==
    /\ wrappers[t].pc = "line35"
    /\ wrappers' = [wrappers EXCEPT ![t] = NoWrapper]
    /\ last_call' = CallEnded(TRUE, "raise", wrappers[t].ran_in)
    /\ UNCHANGED <<breaker, now>>
    /\ WrapperFrame

\* time.time() moves on, between calls and during them.
Tick ==
    /\ now < MaxTime
    /\ now' = now + 1
    /\ UNCHANGED <<breaker, last_call, wrappers>>
    /\ WrapperFrame

BreakerInit ==
    /\ EngineInit
    /\ breaker \in { CircuitBreakerInit(ft, rt) :
                        ft \in FailureThresholds, rt \in RecoveryTimeouts }
    /\ now = 1
    /\ last_call = NoCall
    /\ wrappers = [t \in Threads |-> NoWrapper]

BreakerNext ==
    \/ \E t \in Threads :
          \/ WrapperEnter(t)
          \/ WrapperGateClock(t)
          \/ WrapperGateTest(t)
          \/ WrapperHalfOpen(t)
          \/ WrapperRefuse(t)
          \/ WrapperFuncReturns(t)
          \/ WrapperFuncRaises(t)
          \/ WrapperBaseException(t)
          \/ WrapperTestHalfOpen(t)
          \/ WrapperClose(t)
          \/ WrapperReset(t)
          \/ WrapperReturn(t)
          \/ WrapperCountRead(t)
          \/ WrapperCount(t)
          \/ WrapperFailClock(t)
          \/ WrapperDate(t)
          \/ WrapperTestThreshold(t)
          \/ WrapperOpen(t)
          \/ WrapperReraise(t)
    \/ Tick

BreakerSpec == BreakerInit /\ [][BreakerNext]_vars

(***************************************************************************)
(* Properties                                                              *)
(***************************************************************************)
Range(s) == { s[i] : i \in 1..Len(s) }

RECURSIVE SumQuantity(_)
SumQuantity(trades) ==
    IF trades = <<>> THEN 0 ELSE trades[1][7] + SumQuantity(Tail(trades))

\* The trade names the order on the order's side.
RefersTo(t, o) == IF o.isBuyOrder THEN t[1] = o.id ELSE t[2] = o.id

TradedQuantity(trades, o) ==
    SumQuantity(SelectSeq(trades, LAMBDA t : RefersTo(t, o)))

\* Trades produced so far in the running call: those of the groups done
\* and those of the frame at work.
TradesSoFar == all_matched_trades_tuples \o m.matched_trades_output_tuples

FrameOrders == Range(m.buys) \cup Range(m.sells)

GroupedOrders == UNION { Range(orders_by_token[i].orders) :
                         i \in 1..Len(orders_by_token) }

\* The orders handed to the running call, as given.
InputOrders ==
    { [id |-> o.id, token |-> o.token, amount |-> o.amount, price |-> o.price,
       isBuyOrder |-> o.isBuyOrder] : o \in Range(orders) }
    \cup
    { [id |-> t[1], token |-> t[3], amount |-> t[4], price |-> t[5],
       isBuyOrder |-> t[6]] : t \in Range(payload.buys) \cup Range(payload.sells) }

\* The list handed to match_orders as it was when handed over: the calls
\* of the model pass orders with filled = 0.
OrdersAsGiven == [ k \in 1..Len(orders) |-> [orders[k] EXCEPT !.filled = 0] ]

\* The trade array read back from an encoded notice.
DecodeTrades(words) ==
    [ k \in 1..words[2] |-> SubSeq(words, 8 * k - 5, 8 * k + 2) ]

ResultTrades ==
    IF result.type = "notice" THEN DecodeTrades(result.payload)
    ELSE IF result.type = "trades" THEN result.payload
    ELSE <<>>

RemoveAt(s, k) == SubSeq(s, 1, k - 1) \o SubSeq(s, k + 1, Len(s))

\* C1 (Conservation): in every state of the matching loop, and after it,
\* every order that started with filled = 0 has 0 <= filled <= amount, and
\* the quantities of the trades produced that name it never add up to more
\* than its amount.
C1_Conservation ==
    \A o \in FrameOrders \cup GroupedOrders :
        /\ 0 <= o.filled
        /\ o.filled <= o.amount
        /\ TradedQuantity(TradesSoFar, o) <= o.amount

\* A partial fill met in the loop: one order filled in part, its
\* counterpart filled whole.
C1_Witness ==
    /\ pc = "match_orders"
    /\ \E o \in FrameOrders :
         /\ 0 < o.filled /\ o.filled < o.amount
         /\ TradedQuantity(TradesSoFar, o) = o.filled
    /\ \E o \in FrameOrders : o.amount > 0 /\ o.filled = o.amount

\* C2 (Batch cap) as stated: the encoded trade list holds at most
\* max_trades_per_batch trades, whatever the configured value.
C2_BatchCapAnyConfig ==
    (pc = "returned" /\ result.type = "notice")
        => Len(ResultTrades) <= config.max_trades_per_batch

\* C2 (Batch cap), amended: the encoded trade list holds at most
\* max(0, max_trades_per_batch) trades, counted over all tokens of the
\* batch.
C2_BatchCap ==
    (pc = "returned" /\ result.type = "notice")
        => Len(ResultTrades) <=
              (IF config.max_trades_per_batch >= 0
               THEN config.max_trades_per_batch ELSE 0)

\* The cap met with a second token still waiting, its orders crossing.
C2_Witness ==
    /\ pc = "returned"
    /\ result.type = "notice"
    /\ Len(ResultTrades) = config.max_trades_per_batch
    /\ Len(orders_by_token) = 2
    /\ token_i = 2
    /\ \E b, s \in Range(orders_by_token[2].orders) :
          b.isBuyOrder /\ ~s.isBuyOrder /\ b.price >= s.price

\* C3 (Termination): the matching loop returns: every pass through it that
\* the loop condition lets in leaves the loop or moves it on (a pass that
\* changes nothing is repeated for ever, and the call never returns).
C3_Termination ==
    (pc \in {"handle_order_request", "match_orders"} /\ LoopCond(m))
        => MatchIter(m, config) # m

\* C4 (Determinism): a payload gets the result it gets on an engine that
\* has processed nothing before, whatever was processed before.
C4_Determinism ==
    pc = "returned"
        => result = HandleRun(ExchangeConfigInit(config.max_trades_per_batch,
                                                 config.min_trade_amount,
                                                 config.maker_fee_bps),
                              payload).result

\* C5 (Maker price rule): every trade is priced at the limit price of
\* whichever of its two orders has the smaller id.
C5_MakerPrice ==
    \A t \in Range(TradesSoFar) :
        \E b, s \in InputOrders :
            /\ b.isBuyOrder /\ b.id = t[1]
            /\ ~s.isBuyOrder /\ s.id = t[2]
            /\ t[6] = (IF b.id < s.id THEN b ELSE s).price

\* Trades at differing limit prices, one with the sell as maker and one
\* with the buy as maker.
C5_Witness ==
    /\ \E t \in Range(TradesSoFar) : \E b, s \in InputOrders :
          /\ b.isBuyOrder /\ b.id = t[1] /\ ~s.isBuyOrder /\ s.id = t[2]
          /\ s.id < b.id /\ b.price > s.price /\ t[6] = s.price
    /\ \E t \in Range(TradesSoFar) : \E b, s \in InputOrders :
          /\ b.isBuyOrder /\ b.id = t[1] /\ ~s.isBuyOrder /\ s.id = t[2]
          /\ b.id < s.id /\ b.price > s.price /\ t[6] = b.price

\* C6 (Fee additivity): every trade's fee is the floor of the maker's share
\* plus the floor of the taker's share of quantity * price.
C6_FeeAdditivity ==
    \A t \in Range(TradesSoFar) :
        LET v == t[7] * t[6]
        IN  t[8] = ((v * config.maker_fee_bps) \div 10000)
                   + ((v * config.taker_fee_bps) \div 10000)

\* A trade with a fee above zero on which the two floors differ from the
\* floor on the summed rates.
C6_Witness ==
    \E t \in Range(TradesSoFar) :
        /\ t[8] > 0
        /\ t[8] # ((t[7] * t[6] * (config.maker_fee_bps + config.taker_fee_bps))
                   \div 10000)

\* C7 (Instrument isolation): every trade returned by match_orders or
\* encoded by handle_order_request pairs a buy and a sell of one token, the
\* token the trade names.
C7_InstrumentIsolation ==
    pc = "returned"
        => \A t \in Range(ResultTrades) :
              \E b, s \in InputOrders :
                  /\ b.isBuyOrder /\ b.id = t[1]
                  /\ ~s.isBuyOrder /\ s.id = t[2]
                  /\ b.token = s.token
                  /\ t[5] = b.token

\* A batch returning trades of two tokens.
C7_Witness ==
    /\ pc = "returned"
    /\ \E t, u \in Range(ResultTrades) : t[5] # u[5]

\* C8 (Dust filter): with an order below the effective minimum in the
\* batch, the order raises no error (the call reports only an encode that
\* fails on the trades of other orders), no trade names that order, and
\* the call ends as it ends on the batch without that order: same result,
\* or no return in both.
DustFree(arr, k, side) ==
    LET p == IF side THEN [payload EXCEPT !.buys = RemoveAt(@, k)]
             ELSE [payload EXCEPT !.sells = RemoveAt(@, k)]
        r == HandleRun(config, p)
    IN  /\ result.type = "report"
              => (/\ result = Report("encode")
                  /\ ~Encodable(all_matched_trades_tuples))
        /\ \A t \in Range(ResultTrades) \cup Range(all_matched_trades_tuples) :
              (IF side THEN t[1] ELSE t[2]) # arr[k][1]
        /\ r.result = result
        /\ r.hung = (pc = "handle_order_request")

C8_DustFilter ==
    (pc \in {"returned", "handle_order_request"} /\ payload.layout # "invalid")
        => /\ \A k \in 1..Len(payload.buys) :
                payload.buys[k][4] < get_effective_min_trade_amount(config)
                    => DustFree(payload.buys, k, TRUE)
           /\ \A k \in 1..Len(payload.sells) :
                payload.sells[k][4] < get_effective_min_trade_amount(config)
                    => DustFree(payload.sells, k, FALSE)

\* A batch with a dust order of a token whose other orders trade.
C8_Witness ==
    /\ pc = "returned"
    /\ \E k \in 1..Len(payload.buys) :
          /\ payload.buys[k][4] < get_effective_min_trade_amount(config)
          /\ \E t \in Range(ResultTrades) : t[5] = payload.buys[k][3]

\* C9 (Price-time priority): when a pass of the loop emits a trade, every
\* buy that sorts before the trade's buy by (price descending, id
\* ascending), and every sell that sorts before its sell by (price
\* ascending, id ascending), is already filled whole.
SortsBefore(o, x) ==
    IF x.isBuyOrder
    THEN o.price > x.price \/ (o.price = x.price /\ o.id < x.id)
    ELSE o.price < x.price \/ (o.price = x.price /\ o.id < x.id)

EmitsTrade ==
    /\ pc = "match_orders" /\ pc' = "match_orders"
    /\ token_i' = token_i
    /\ Len(m'.matched_trades_output_tuples) = Len(m.matched_trades_output_tuples) + 1

C9_PriceTimePriority ==
    [][ EmitsTrade =>
          LET t == m'.matched_trades_output_tuples[Len(m'.matched_trades_output_tuples)]
          IN  /\ \A b \in Range(m.buys), o \in Range(m.buys) :
                    (b.id = t[1] /\ SortsBefore(o, b)) => o.filled >= o.amount
              /\ \A s \in Range(m.sells), o \in Range(m.sells) :
                    (s.id = t[2] /\ SortsBefore(o, s)) => o.filled >= o.amount
      ]_vars

\* A trade of the higher-priced buy with the larger id, while the
\* lower-priced buy with the smaller id has nothing filled.
C9_Witness ==
    /\ pc = "match_orders"
    /\ \E t \in Range(m.matched_trades_output_tuples) :
          \E b, o \in Range(m.buys) :
              /\ b.id = t[1]
              /\ o.id < b.id /\ o.price < b.price
              /\ o.amount > 0 /\ o.filled = 0

\* C10 (Crossing condition): a trade pairs a buy and a sell whose limit
\* prices cross, at one of the two limit prices; a token none of whose buys
\* reaches any of its sells gets no trade.
C10_Crossing ==
    /\ \A t \in Range(TradesSoFar) :
          \E b, s \in InputOrders :
              /\ b.isBuyOrder /\ b.id = t[1]
              /\ ~s.isBuyOrder /\ s.id = t[2]
              /\ b.price >= s.price
              /\ t[6] \in {b.price, s.price}
              /\ s.price <= t[6] /\ t[6] <= b.price
    /\ \A i \in 1..Len(orders_by_token) :
          (\A b, s \in Range(orders_by_token[i].orders) :
              (b.isBuyOrder /\ ~s.isBuyOrder) => b.price < s.price)
          => \A t \in Range(TradesSoFar) : t[5] # orders_by_token[i].token

\* A call returning no trade for a token that has a buy and a sell, the
\* buy below the sell, and a trade for the other token.
C10_Witness ==
    /\ pc = "returned"
    /\ \E i \in 1..Len(orders_by_token) :
          /\ \E b, s \in Range(orders_by_token[i].orders) :
                b.isBuyOrder /\ ~s.isBuyOrder
          /\ \A b, s \in Range(orders_by_token[i].orders) :
                (b.isBuyOrder /\ ~s.isBuyOrder) => b.price < s.price
          /\ \A t \in Range(ResultTrades) : t[5] # orders_by_token[i].token

\* C11 (Fatal errors produce a report only): a call that returns on a
\* payload matching neither layout, or after an exception raised on the
\* way to the notice (encode, line 263, on trades it cannot hold), returns
\* one result, of type report, carrying the error message: no notice and
\* no encoded trade array, whatever trades had been collected for other
\* tokens; and a report is returned in these cases only.
Reports(why) ==
    /\ result.type = "report"
    /\ result.payload = <<"Error processing order request", why>>
    /\ ResultTrades = <<>>

C11_FatalReport ==
    pc = "returned"
        => /\ payload.layout = "invalid"
                 => (Reports("decode") /\ all_matched_trades_tuples = <<>>)
           /\ (/\ payload.layout # "invalid"
               /\ ~Encodable(all_matched_trades_tuples))
                 => Reports("encode")
           /\ result.type = "report"
                 => (/\ Reports("decode") \/ Reports("encode")
                     /\ \/ payload.layout = "invalid"
                        \/ ~Encodable(all_matched_trades_tuples))

\* A batch of two tokens reported because the trade of one of them cannot
\* be encoded, the trade collected for the other token, which can, given
\* up with it.
C11_Witness ==
    /\ pc = "returned"
    /\ payload.layout = "full"
    /\ Reports("encode")
    /\ Len(all_matched_trades_tuples) = 2
    /\ all_matched_trades_tuples[1][5] # all_matched_trades_tuples[2][5]
    /\ Encodable(<<all_matched_trades_tuples[1]>>)
    /\ ~Encodable(<<all_matched_trades_tuples[2]>>)

\* C12 (Legacy fallback uses the default runtime configuration): a batch
\* whose three-field decode failed and whose legacy decode succeeded runs
\* with the build-time minimum trade amount and timestamp 0, whatever
\* runtime tuple an earlier batch carried.
C12_LegacyDefaults ==
    (/\ pc \in {"returned", "handle_order_request"}
     /\ payload.layout = "legacy"
     /\ DecodedLayout(payload) = "legacy")
        => /\ get_effective_min_trade_amount(config) = config.min_trade_amount
           /\ config.current_timestamp = 0
           /\ \A o \in GroupedOrders : o.timestamp = 0

\* C13 (Allocation equals filled): when handle_order_request has returned
\* its notice, every surviving order's filled equals the quantities of the
\* encoded trades that name it.
C13_AllocationEqualsFilled ==
    (pc = "returned" /\ result.type = "notice")
        => \A o \in GroupedOrders : TradedQuantity(ResultTrades, o) = o.filled

\* A group of one buy and one sell whose prices cross.
OneCrossingPair(group) ==
    /\ Len(group.orders) = 2
    /\ \E b, s \in Range(group.orders) :
          b.isBuyOrder /\ ~s.isBuyOrder /\ b.price >= s.price

\* C14 (Instrument independence): the trades match_orders returns for a
\* token, and the filled values it leaves on that token's orders, are those
\* of matching the token's orders alone, whatever other tokens' orders the
\* list holds; a list of k tokens with one crossing pair each returns k
\* trades, one for each token.
C14_InstrumentIndependence ==
    (pc = "returned" /\ result.type = "trades")
        => /\ (\A i \in 1..Len(orders_by_token) :
                   OneCrossingPair(orders_by_token[i]))
                 => (/\ Len(result.payload) = Len(orders_by_token)
                     /\ \A i \in 1..Len(orders_by_token) :
                           result.payload[i][5] = orders_by_token[i].token)
           /\ \A i \in 1..Len(orders_by_token) :
              LET T == orders_by_token[i].token
                  own == SelectSeq(OrdersAsGiven, LAMBDA o : o.token = T)
                  alone == RunMatch(MatchStart(own, config), config)
              IN  /\ ~LoopCond(alone)
                  /\ SelectSeq(result.payload, LAMBDA t : t[5] = T)
                        = alone.matched_trades_output_tuples
                  /\ orders_by_token[i].orders = FilledBack(own, alone)
                  /\ SelectSeq(orders, LAMBDA o : o.token = T)
                        = FilledBack(own, alone)

\* A list of two tokens with one crossing pair each, returning two trades,
\* one for each token, with a buy of one token priced at or above a sell
\* of the other.
C14_Witness ==
    /\ pc = "returned"
    /\ result.type = "trades"
    /\ Len(orders_by_token) = 2
    /\ \A i \in 1..2 : OneCrossingPair(orders_by_token[i])
    /\ Len(result.payload) = 2
    /\ result.payload[1][5] # result.payload[2][5]
    /\ \E b, s \in Range(orders) :
          /\ b.isBuyOrder /\ ~s.isBuyOrder
          /\ b.token # s.token
          /\ b.price >= s.price

\* The orders of a payload that pass the dust filter under cfg, buy array
\* first.
Survivors(p, cfg) ==
    LET raw == p.buys \o p.sells
    IN  SelectSeq([ k \in 1..Len(raw) |-> order_dict(raw[k], cfg) ],
                  LAMBDA o : o.amount >= get_effective_min_trade_amount(cfg))

\* The tokens of a list of orders in order of first occurrence.
RECURSIVE FirstTokens(_)
FirstTokens(os) ==
    IF os = <<>> THEN <<>>
    ELSE LET before == FirstTokens(SubSeq(os, 1, Len(os) - 1))
             T == os[Len(os)].token
         IN  IF T \in Range(before) THEN before ELSE Append(before, T)

\* The trades of the tokens toks, each token's orders matched alone, one
\* token's trades after the other's.
RECURSIVE ConcatByToken(_, _, _)
ConcatByToken(os, toks, cfg) ==
    IF toks = <<>> THEN <<>>
    ELSE RunMatch(MatchStart(SelectSeq(os, LAMBDA o : o.token = toks[1]), cfg),
                  cfg).matched_trades_output_tuples
         \o ConcatByToken(os, Tail(toks), cfg)

AllTradesInOrder ==
    ConcatByToken(Survivors(payload, config),
                  FirstTokens(Survivors(payload, config)), config)

\* C15 (Emission order and hard-cutoff truncation): for
\* max_trades_per_batch >= 0 the encoded trade list is the first
\* min(N, max_trades_per_batch) trades of the per-token results put one
\* after the other, tokens in order of first occurrence among the surviving
\* orders, buy array before sell array.
C15_PrefixCutoff ==
    (pc = "returned" /\ result.type = "notice" /\ config.max_trades_per_batch >= 0)
        => ResultTrades =
              SubSeq(AllTradesInOrder, 1,
                     Min(Len(AllTradesInOrder), config.max_trades_per_batch))

\* A batch whose two tokens both trade, cut off at the cap after the first
\* token's trade.
C15_Witness ==
    /\ pc = "returned"
    /\ result.type = "notice"
    /\ config.max_trades_per_batch >= 1
    /\ Len(AllTradesInOrder) > config.max_trades_per_batch
    /\ Len(ResultTrades) = config.max_trades_per_batch
    /\ \E t, u \in Range(AllTradesInOrder) : t[5] # u[5]

\* C16 (Effective minimum resolution): a batch whose payload carries a
\* runtime tuple with minTradeAmount mm is filtered and matched with
\* minimum mm when mm is not zero and with the build-time min_trade_amount
\* when it is.
C16_EffectiveMinimum ==
    (pc \in {"returned", "handle_order_request"} /\ payload.layout = "full")
        => LET mm == payload.runtime[3]
               eff == IF mm # 0 THEN mm ELSE config.min_trade_amount
               raw == Range(payload.buys) \cup Range(payload.sells)
           IN  /\ { o.id : o \in GroupedOrders } = { t[1] : t \in { u \in raw : u[4] >= eff } }
               /\ \A t \in Range(ResultTrades) : t[7] >= eff
               /\ pc = "handle_order_request" => m.effective_min_trade = eff

\* A batch with minTradeAmount 0 on an engine built with minimum 2: an
\* order of amount 1 is dropped and the others trade.
C16_Witness ==
    /\ pc = "returned"
    /\ payload.layout = "full"
    /\ payload.runtime[3] = 0
    /\ config.min_trade_amount = 2
    /\ \E t \in Range(payload.buys) \cup Range(payload.sells) :
          t[4] = 1 /\ \A o \in GroupedOrders : o.id # t[1]
    /\ ResultTrades # <<>>

\* Runtime tuples differing in timestamp and feeBps only.
FeeVariants == {<<7, 30>>, <<9, 50>>, <<8, 0>>}

\* C17 (Maker and taker rates come from build-time configuration): a batch
\* gets the same result, every trade's fee included, whatever feeBps and
\* timestamp its runtime tuple carries.
C17_FeeFromBuildConfig ==
    (pc = "returned" /\ payload.layout = "full")
        => \A v \in FeeVariants :
              HandleRun(config, [payload EXCEPT
                                   !.runtime = <<v[1], v[2], payload.runtime[3]>>]).result
                 = result

\* A trade whose fee differs from what the runtime feeBps would give as
\* the taker's rate.
C17_Witness ==
    /\ pc = "returned"
    /\ payload.layout = "full"
    /\ \E t \in Range(ResultTrades) :
          /\ t[8] > 0
          /\ t[8] # calculate_trade_fee(t[7] * t[6], config.maker_fee_bps)
                    + calculate_trade_fee(t[7] * t[6], payload.runtime[2])

\* C20 (Successful decoding always yields a notice), as the claim states
\* it: a call that returns on a payload read in the three-field or the
\* legacy layout returns a notice carrying the encoded trade list, the
\* empty list included.
C20_NoticeOnSuccess ==
    (pc = "returned" /\ payload.layout \in {"full", "legacy"})
        => /\ result.type = "notice"
           /\ result.payload = encode(all_matched_trades_tuples)
           /\ result.payload[1] = 32
           /\ result.payload[2] = Len(all_matched_trades_tuples)
           /\ Len(result.payload) = 2 + 8 * Len(all_matched_trades_tuples)

\* C20, amended: a call that returns on a payload read in the three-field
\* or the legacy layout returns a notice carrying the encoded trade list,
\* the empty list included, if every uint256 member of the trades it has
\* collected is a uint256, and a report if not.
C20_NoticeWhenEncodable ==
    (pc = "returned" /\ payload.layout \in {"full", "legacy"})
        => /\ Encodable(all_matched_trades_tuples)
                 => (/\ result.type = "notice"
                     /\ result.payload = encode(all_matched_trades_tuples)
                     /\ result.payload[1] = 32
                     /\ result.payload[2] = Len(all_matched_trades_tuples)
                     /\ Len(result.payload)
                           = 2 + 8 * Len(all_matched_trades_tuples))
           /\ ~Encodable(all_matched_trades_tuples)
                 => (/\ result.type = "report"
                     /\ result.payload
                           = <<"Error processing order request", "encode">>)

\* A legacy payload with a buy and a sell of one token that do not cross,
\* answered with the encoding of the empty list.
C20_Witness ==
    /\ pc = "returned"
    /\ payload.layout = "legacy"
    /\ \E i \in 1..Len(orders_by_token) :
          \E b, s \in Range(orders_by_token[i].orders) :
              b.isBuyOrder /\ ~s.isBuyOrder /\ b.price < s.price
    /\ result = [type |-> "notice", payload |-> <<32, 0>>]

\* C18 (Adapter forwards notice on success and report on error): what the
\* rollup loop posts for an engine result of type report goes to /report
\* and never to /notice; every posted notice carries an encoded trade
\* array.
C18_ForwardByType ==
    (pc = "finish" /\ request_type = "advance_state"
                   /\ result.type \in {"notice", "report"})
        => /\ Len(posted) = 1
           /\ posted[1].payload = result.payload
           /\ posted[1].endpoint = result.type

\* C19 (Inspection is read-only): handling an inspect_state request leaves
\* every configuration field as it was, runs no matching, and posts the
\* effective configuration as one report.
C19_InspectReadOnly ==
    [][ (pc = "idle" /\ request_type' = "inspect_state")
          => /\ config' = config
             /\ UNCHANGED call_vars
             /\ pc' \in {"finish", "exited"}
             /\ pc' = "exited" => posted' = posted
             /\ raised' => posted' = posted
             /\ (pc' = "finish" /\ ~raised') =>
                  /\ Len(posted') = 1
                  /\ posted'[1].endpoint = "report"
                  /\ posted'[1].payload =
                        [ exchange_mode        |-> config.exchange_mode,
                          max_trades_per_batch |-> config.max_trades_per_batch,
                          min_trade_amount     |->
                              IF config.runtime_min_trade_amount > 0
                              THEN config.runtime_min_trade_amount
                              ELSE config.min_trade_amount,
                          maker_fee_bps        |-> config.maker_fee_bps,
                          taker_fee_bps        |-> config.taker_fee_bps,
                          current_timestamp    |-> config.current_timestamp ]
      ]_vars

\* An inspect request answered on an engine whose last batch carried a
\* runtime minimum other than the build-time one.
C19_Witness ==
    /\ pc = "finish"
    /\ request_type = "inspect_state"
    /\ ~raised
    /\ Len(posted) = 1
    /\ posted[1].endpoint = "report"
    /\ config.current_timestamp > 0
    /\ config.runtime_min_trade_amount > 0
    /\ config.runtime_min_trade_amount # config.min_trade_amount
    /\ posted[1].payload.min_trade_amount = config.runtime_min_trade_amount

\* C21 (Partial fill step): a pass of the loop that emits a trade emits it
\* for min(buy.amount - buy.filled, sell.amount - sell.filled) as they
\* were before the pass, which is at least the effective minimum, and adds
\* exactly that to the filled of both orders; a pass that emits nothing
\* changes no filled; no pass changes another order, and no filled ever
\* decreases.
C21_PartialFillStep ==
    [][ (pc = "match_orders" /\ pc' = "match_orders" /\ token_i' = token_i
                             /\ m' # m)
          => LET bi == m.buy_idx + 1
                 si == m.sell_idx + 1
                 b == m.buys[bi]
                 s == m.sells[si]
                 tq == Min(b.amount - b.filled, s.amount - s.filled)
                 old == m.matched_trades_output_tuples
                 new == m'.matched_trades_output_tuples
                 emitted == Len(new) = Len(old) + 1
             IN  /\ Len(new) \in {Len(old), Len(old) + 1}
                 /\ SubSeq(new, 1, Len(old)) = old
                 /\ emitted =>
                      /\ new[Len(new)][1] = b.id
                      /\ new[Len(new)][2] = s.id
                      /\ new[Len(new)][7] = tq
                      /\ tq >= m.effective_min_trade
                      /\ m'.buys[bi].filled = b.filled + tq
                      /\ m'.sells[si].filled = s.filled + tq
                 /\ ~emitted =>
                      /\ m'.buys[bi].filled = b.filled
                      /\ m'.sells[si].filled = s.filled
                 /\ \A k \in 1..Len(m.buys) : k # bi => m'.buys[k] = m.buys[k]
                 /\ \A k \in 1..Len(m.sells) : k # si => m'.sells[k] = m.sells[k]
                 /\ \A k \in 1..Len(m.buys) : m'.buys[k].filled >= m.buys[k].filled
                 /\ \A k \in 1..Len(m.sells) : m'.sells[k].filled >= m.sells[k].filled
      ]_vars

\* An order filled by two trades, the second for what the first had left.
C21_Witness ==
    /\ pc = "match_orders"
    /\ Len(m.matched_trades_output_tuples) = 2
    /\ \E o \in FrameOrders :
          /\ o.filled = o.amount
          /\ o.filled = m.matched_trades_output_tuples[1][7]
                        + m.matched_trades_output_tuples[2][7]
          /\ RefersTo(m.matched_trades_output_tuples[1], o)
          /\ RefersTo(m.matched_trades_output_tuples[2], o)
          /\ m.matched_trades_output_tuples[1][7] # m.matched_trades_output_tuples[2][7]

\* The buy and the sell of the frame that a trade names.
BuyOf(t) == CHOOSE b \in Range(m.buys) : b.id = t[1]

SellOf(t) == CHOOSE s \in Range(m.sells) : s.id = t[2]

\* C24 (Each emitted trade fully fills at least one of its two orders):
\* in the matching loop every trade emitted has its buy or its sell filled
\* whole, every trade has moved a cursor on, no (buy, sell) pair is in two
\* trades, and a group with buys and sells has at most
\* nb + ns - 1 trades.
C24_TradeFillsOne ==
    pc = "match_orders"
        => LET trades == m.matched_trades_output_tuples
           IN  /\ \A t \in Range(trades) :
                     \/ BuyOf(t).filled = BuyOf(t).amount
                     \/ SellOf(t).filled = SellOf(t).amount
               /\ Len(trades) <= m.buy_idx + m.sell_idx
               /\ \A i, j \in 1..Len(trades) :
                     (trades[i][1] = trades[j][1] /\ trades[i][2] = trades[j][2])
                        => i = j
               /\ (Len(m.buys) > 0 /\ Len(m.sells) > 0)
                     => Len(trades) <= Len(m.buys) + Len(m.sells) - 1

\* A group of one buy and two sells with nb + ns - 1 = 2 trades, the
\* first of which left the buy filled in part.
C24_Witness ==
    /\ pc = "match_orders"
    /\ Len(m.buys) = 1 /\ Len(m.sells) = 2
    /\ Len(m.matched_trades_output_tuples) = 2
    /\ m.matched_trades_output_tuples[1][7] < m.buys[1].amount
    /\ m.sells[1].filled = m.sells[1].amount

\* C25 (Book is uncrossed at completion): with effective minimum 1, when
\* match_orders_for_token returns, no buy and sell of the group that are
\* both short of their amount have buy price >= sell price.
C25_Uncrossed ==
    (pc = "match_orders" /\ ~LoopCond(m) /\ m.effective_min_trade = 1)
        => \A b \in Range(m.buys), s \in Range(m.sells) :
              (b.filled < b.amount /\ s.filled < s.amount) => b.price < s.price

\* The loop left by the break after a trade: a buy and a sell remain
\* unfilled, the buy below the sell.
C25_Witness ==
    /\ pc = "match_orders"
    /\ m.broke
    /\ m.effective_min_trade = 1
    /\ Len(m.matched_trades_output_tuples) >= 1
    /\ \E b \in Range(m.buys), s \in Range(m.sells) :
          b.filled < b.amount /\ s.filled < s.amount /\ b.price < s.price

\* C26 (match_orders applies neither the dust filter nor the batch cap):
\* a returned call of match_orders has handed every order of its list to
\* the matching loop and returns all trades of all groups, groups in order
\* of first occurrence in the list.
C26_NoFilterNoCap ==
    (pc = "returned" /\ result.type = "trades")
        => /\ { o.id : o \in GroupedOrders } = { o.id : o \in Range(orders) }
           /\ [ i \in 1..Len(orders_by_token) |-> orders_by_token[i].token ]
                 = FirstTokens(orders)
           /\ result.payload =
                 ConcatByToken(OrdersAsGiven, FirstTokens(orders), config)

\* A call returning more trades than max_trades_per_batch: the trade of
\* the token that comes first in the list, then the trade of the other
\* token, one of whose orders stands before all orders of the first in
\* the sort by id.
C26_Witness ==
    /\ pc = "returned"
    /\ result.type = "trades"
    /\ Len(result.payload) = 2
    /\ Len(result.payload) > config.max_trades_per_batch
    /\ FirstTokens(orders) = <<result.payload[1][5], result.payload[2][5]>>
    /\ result.payload[1][5] # result.payload[2][5]
    /\ \E o \in Range(orders) :
          /\ o.token = result.payload[2][5]
          /\ \A q \in Range(orders) :
                q.token = result.payload[1][5] => o.id < q.id

\* C22 (Engine invocations are atomic and ordered by the adapter): the
\* rollup loop is at one request at a time; while the engine runs, and
\* when it has returned, it has been called once for the request and
\* nothing is posted yet; when the loop comes to send /finish for an
\* advance_state request with a payload it has called the engine once and
\* posted one output; a request is taken up only with no call and no
\* output pending.
C22_OneCallOnePost ==
    /\ calls \in {0, 1}
    /\ pc \in {"handle_order_request", "returned"}
          => (calls = 1 /\ posted = <<>> /\ request_type = "advance_state")
    /\ (pc = "finish" /\ request_type = "advance_state" /\ ~raised
                      /\ payload # NoPayload)
          => (calls = 1 /\ Len(posted) = 1 /\ posted[1].endpoint = "notice")
    /\ pc = "idle" => (calls = 0 /\ posted = <<>>)

\* The output of a second batch posted, the first having carried the
\* runtime configuration the engine still holds.
C22_Witness ==
    /\ pc = "finish"
    /\ request_type = "advance_state"
    /\ payload.layout = "legacy"
    /\ config.current_timestamp > 0
    /\ calls = 1
    /\ Len(posted) = 1

\* C23 (Finish handshake status): the status the loop is about to send
\* with /finish is accept when the request was an advance_state or
\* inspect_state handled without an exception, and reject when its type
\* is unknown or handling it raised; an unknown request calls no engine
\* and posts nothing; after a /finish answered with another status than
\* 200 or failing in transport the loop has stopped.  The first /finish,
\* sent before any request, carries accept.
C23_FinishStatus ==
    /\ (pc = "finish" /\ (request_type # "none" \/ raised))
          => finish_response =
                (IF ~raised /\ request_type \in {"advance_state", "inspect_state"}
                 THEN "accept" ELSE "reject")
    /\ (pc = "finish" /\ request_type = "none" /\ ~raised)
          => finish_response = "accept"
    /\ (pc = "finish" /\ request_type = "unknown")
          => (calls = 0 /\ posted = <<>> /\ result = NoResult)
    /\ finish_http # "ok" => pc = "exited"
    /\ pc \in {"idle", "handle_order_request", "returned", "finish"}
          => finish_http = "ok"

\* An unknown request about to be rejected, after a batch that was
\* accepted.
C23_Witness ==
    /\ pc = "finish"
    /\ request_type = "unknown"
    /\ finish_response = "reject"
    /\ config.current_timestamp > 0

\* C27 (Runner service surfaces engine errors): when the engine's result
\* is an error report, POST /execute answers 500 with an error body and
\* not 200 with the error bytes as output_payload_hex.
C27_ErrorsAre500 ==
    \A t \in Threads :
        (/\ views[t].pc = "responded"
         /\ views[t].route = "execute"
         /\ views[t].result.type = "report")
            => (/\ views[t].response.status = 500
                /\ views[t].response.kind = "error")

\* No call is inside the wrapper.
AtRest == \A t \in Threads : wrappers[t].pc = "idle"

\* A step in which the call of thread t ends by returning (line 29).
Returns(t) ==
    /\ wrappers[t].pc = "line29"
    /\ wrappers'[t].pc = "idle"

\* A step in which the call of thread t ends by raising the function's
\* Exception again (line 37).
Fails(t) ==
    /\ wrappers[t].pc = "line35"
    /\ wrappers'[t].pc = "idle"

\* C28 (Circuit breaker state/counter invariant): with failure_threshold
\* >= 1, once the calls made have ended, CLOSED implies failures <
\* failure_threshold, and OPEN or HALF_OPEN implies failures >=
\* failure_threshold; the counter goes back to 0 only in a call that ran
\* the function in HALF_OPEN and returned, and a call that ran it in
\* CLOSED and returns leaves the counter as it found it.
C28_StateAndCounter ==
    [][/\ AtRest' =>
            /\ breaker'.failure_threshold >= 1
            /\ breaker'.state \in {"CLOSED", "OPEN", "HALF_OPEN"}
            /\ breaker'.state = "CLOSED"
                  => breaker'.failures < breaker'.failure_threshold
            /\ breaker'.state \in {"OPEN", "HALF_OPEN"}
                  => breaker'.failures >= breaker'.failure_threshold
       /\ \A t \in Threads :
            /\ (/\ wrappers[t].pc = "line28"
                /\ wrappers'[t].pc = "line29")
                  => wrappers[t].ran_in = "HALF_OPEN"
            /\ (/\ wrappers[t].pc \in {"line26", "line27", "line28"}
                /\ wrappers[t].ran_in = "CLOSED"
                /\ wrappers'[t] # wrappers[t])
                  => breaker'.failures = breaker.failures]_vars

\* C29 (Circuit breaker gating): a call that tests the clock while the
\* breaker is OPEN and no more than recovery_timeout has passed since the
\* last failure raises without entering the function and changes neither
\* failures nor last_failure_time; the call the gate lets in after the
\* timeout runs the function in HALF_OPEN: when it returns the breaker is
\* CLOSED with the counter at 0, when it raises an Exception the breaker
\* is OPEN again with last_failure_time at the time of that failure.
C29_Gating ==
    [][\A t \in Threads :
         /\ (/\ wrappers[t].pc = "line17_test"
             /\ wrappers'[t] # wrappers[t]
             /\ breaker.state = "OPEN"
             /\ wrappers[t].clock - breaker.last_failure_time
                   <= breaker.recovery_timeout)
               => (wrappers'[t].pc = "line20" /\ breaker' = breaker)
         /\ (wrappers[t].pc = "line20" /\ wrappers'[t] # wrappers[t])
               => (/\ wrappers'[t].pc = "idle"
                   /\ ~last_call'.invoked
                   /\ breaker' = breaker)
         /\ (/\ wrappers[t].pc = "line17_test"
             /\ wrappers'[t] # wrappers[t]
             /\ breaker.state = "OPEN"
             /\ wrappers[t].clock - breaker.last_failure_time
                   > breaker.recovery_timeout)
               => wrappers'[t].pc = "line18"
         /\ (wrappers[t].pc = "line18" /\ wrappers'[t] # wrappers[t])
               => (/\ wrappers'[t].pc = "line25"
                   /\ wrappers'[t].ran_in = "HALF_OPEN"
                   /\ breaker'.state = "HALF_OPEN")
         /\ (Returns(t) /\ wrappers[t].trial)
               => (breaker'.state = "CLOSED" /\ breaker'.failures = 0)
         /\ (Fails(t) /\ wrappers[t].trial)
               => (/\ breaker'.state = "OPEN"
                   /\ breaker'.last_failure_time = wrappers[t].clock)]_vars

====
